---- MODULE Spec2Model ----
(***************************************************************************)
(* Model of the measurement / metrics-reconciliation pipeline of           *)
(* src/benchmark.py: the unit parsers, get_query_stats_from_api,           *)
(* measure_query_execution and the CSV row written by run_benchmark.       *)
(*                                                                         *)
(* Numbers are exact rationals in factored form                            *)
(*      value = (n / d) * 2^p2 * 5^p5,   n, d coprime to 10 and each other *)
(* so that the divisions by 1e9, 1e6, 1e3, 1024 and 1024^2 of the parsers  *)
(* stay exact and inside TLC's integers.  Floating-point rounding,         *)
(* infinities and NaN are outside the model.                               *)
(* Strings are sequences of one-character strings.                         *)
(* An exception is a result with raised = TRUE.                            *)
(***************************************************************************)
EXTENDS Integers, Sequences, FiniteSets, TLC

\* ------------------------------------------------------------------------
\* Exact numbers
\* ------------------------------------------------------------------------
RECURSIVE GCD(_, _)
GCD(a, b) == IF b = 0 THEN a ELSE GCD(b, a % b)

Abs(x) == IF x < 0 THEN -x ELSE x

RECURSIVE Strip2(_, _)
\* <<m, k>> with x = m * 2^k and m odd (x # 0)
Strip2(x, k) == IF x % 2 = 0 THEN Strip2(x \div 2, k + 1) ELSE <<x, k>>

RECURSIVE Strip5(_, _)
Strip5(x, k) == IF x % 5 = 0 THEN Strip5(x \div 5, k + 1) ELSE <<x, k>>

Zero == [n |-> 0, d |-> 1, p2 |-> 0, p5 |-> 0]

Sign(x) == IF x < 0 THEN -1 ELSE 1

\* n2, d2: numerator and denominator with their powers of 2 stripped
\* n5, d5: the same with the powers of 5 stripped too
NormStripped(sgn, n2, n5, d2, d5, a, b) ==
    [n  |-> sgn * n5[1],
     d  |-> d5[1],
     p2 |-> a + n2[2] - d2[2],
     p5 |-> b + n5[2] - d5[2]]

NormStrip2(sgn, n2, d2, a, b) ==
    NormStripped(sgn, n2, Strip5(n2[1], 0), d2, Strip5(d2[1], 0), a, b)

\* num, den > 0 and coprime
NormCoprime(sgn, num, den, a, b) ==
    NormStrip2(sgn, Strip2(num, 0), Strip2(den, 0), a, b)

NormBy(sgn, num, den, g, a, b) == NormCoprime(sgn, num \div g, den \div g, a, b)

NormAbs(sgn, num, den, a, b) == NormBy(sgn, num, den, GCD(num, den), a, b)

\* canonical form of (num / den) * 2^a * 5^b, den # 0
Norm(num, den, a, b) ==
    IF num = 0 THEN Zero
    ELSE NormAbs(Sign(num) * Sign(den), Abs(num), Abs(den), a, b)

FromInt(k) == Norm(k, 1, 0, 0)

NumMul(x, y) == Norm(x.n * y.n, x.d * y.d, x.p2 + y.p2, x.p5 + y.p5)

\* x / y, y # 0
NumDiv(x, y) == Norm(x.n * y.d, x.d * y.n, x.p2 - y.p2, x.p5 - y.p5)

IsZero(x) == x.n = 0
IsPos(x)  == x.n > 0
IsNeg(x)  == x.n < 0

\* 10^k as a number, k any integer
Pow10(k) == [n |-> 1, d |-> 1, p2 |-> k, p5 |-> k]
\* 2^k as a number
Pow2(k)  == [n |-> 1, d |-> 1, p2 |-> k, p5 |-> 0]

\* ------------------------------------------------------------------------
\* Python values: None, int, str.  A dict lookup of a missing key is "absent".
\* ------------------------------------------------------------------------
PyNone    == [t |-> "none",   n |-> 0, s |-> << >>]
Absent    == [t |-> "absent", n |-> 0, s |-> << >>]
PyInt(k)  == [t |-> "int",    n |-> k, s |-> << >>]
PyStr(cs) == [t |-> "str",    n |-> 0, s |-> cs]

\* truth value of a Python object (None, 0 and "" are falsy)
Truthy(v) ==
    CASE v.t = "none"   -> FALSE
      [] v.t = "absent" -> FALSE
      [] v.t = "int"    -> v.n # 0
      [] v.t = "str"    -> v.s # << >>

\* a or b
PyOr(a, b) == IF Truthy(a) THEN a ELSE b

\* dict.get(key): None when the key is missing
DictGet(dict, key) == IF dict[key].t = "absent" THEN PyNone ELSE dict[key]

\* ------------------------------------------------------------------------
\* Strings
\* ------------------------------------------------------------------------
Digits == <<"0", "1", "2", "3", "4", "5", "6", "7", "8", "9">>

DigitVal(c) == CHOOSE k \in 0..9 : Digits[k + 1] = c

IsDigit(c) == \E k \in 1..10 : Digits[k] = c

RECURSIVE NatToStr(_)
NatToStr(k) == IF k < 10 THEN <<Digits[k + 1]>>
               ELSE NatToStr(k \div 10) \o <<Digits[(k % 10) + 1]>>

\* str(value)
PyStrOf(v) ==
    CASE v.t = "str"  -> v.s
      [] v.t = "int"  -> IF v.n < 0 THEN <<"-">> \o NatToStr(-v.n) ELSE NatToStr(v.n)
      [] v.t = "none" -> <<"N", "o", "n", "e">>

LowerChar(c) ==
    CASE c = "B" -> "b" [] c = "G" -> "g" [] c = "K" -> "k" [] c = "M" -> "m"
      [] c = "N" -> "n" [] c = "S" -> "s" [] c = "U" -> "u" [] c = "X" -> "x"
      [] OTHER -> c

UpperChar(c) ==
    CASE c = "b" -> "B" [] c = "g" -> "G" [] c = "k" -> "K" [] c = "m" -> "M"
      [] c = "n" -> "N" [] c = "s" -> "S" [] c = "u" -> "U" [] c = "x" -> "X"
      [] c = "o" -> "O" [] c = "e" -> "E"
      [] OTHER -> c

Lower(s) == [k \in 1..Len(s) |-> LowerChar(s[k])]
Upper(s) == [k \in 1..Len(s) |-> UpperChar(s[k])]

IsSpace(c) == c = " "

RECURSIVE LStrip(_)
LStrip(s) == IF s # << >> /\ IsSpace(Head(s)) THEN LStrip(Tail(s)) ELSE s

RECURSIVE RStripSpace(_)
RStripSpace(s) ==
    IF s # << >> /\ IsSpace(s[Len(s)]) THEN RStripSpace(SubSeq(s, 1, Len(s) - 1)) ELSE s

\* s.strip()
StrStrip(s) == RStripSpace(LStrip(s))

\* s.rstrip(c) for a one-character c
RECURSIVE RStripChar(_, _)
RStripChar(s, c) ==
    IF s # << >> /\ s[Len(s)] = c THEN RStripChar(SubSeq(s, 1, Len(s) - 1), c) ELSE s

StartsWith(s, sub) == Len(sub) <= Len(s) /\ SubSeq(s, 1, Len(sub)) = sub

\* s.endswith(sub)
EndsWith(s, sub) ==
    Len(sub) <= Len(s) /\ SubSeq(s, Len(s) - Len(sub) + 1, Len(s)) = sub

\* sub in s
Contains(s, sub) ==
    \E k \in 1..(Len(s) - Len(sub) + 1) : SubSeq(s, k, k + Len(sub) - 1) = sub

\* s.replace(sub, ''): every non-overlapping occurrence, left to right
RECURSIVE Remove(_, _)
Remove(s, sub) ==
    IF s = << >> THEN << >>
    ELSE IF StartsWith(s, sub) THEN Remove(SubSeq(s, Len(sub) + 1, Len(s)), sub)
    ELSE <<Head(s)>> \o Remove(Tail(s), sub)

\* ------------------------------------------------------------------------
\* float(str).  Literals: optional sign, digits with at most one point and
\* at least one digit, surrounding blanks ignored.  Exponents, underscores,
\* inf and nan use characters outside the modelled alphabet.
\* ------------------------------------------------------------------------
Returned(v) == [raised |-> FALSE, v |-> v]
Raised      == [raised |-> TRUE,  v |-> Zero]
\* the same for an expression whose value is a Python object
RaisedObj   == [raised |-> TRUE,  v |-> PyNone]

AllDigits(s) == \A k \in 1..Len(s) : IsDigit(s[k])

RECURSIVE DigitsToNat(_)
DigitsToNat(s) == IF s = << >> THEN 0
                  ELSE DigitsToNat(SubSeq(s, 1, Len(s) - 1)) * 10 + DigitVal(s[Len(s)])

PointAt(s) == IF \E k \in 1..Len(s) : s[k] = "."
              THEN CHOOSE k \in 1..Len(s) : s[k] = "." /\ \A j \in 1..(k - 1) : s[j] # "."
              ELSE 0

\* integer part ip and fraction part fp of an unsigned literal
UFloatParts(ip, fp) ==
    IF AllDigits(ip) /\ AllDigits(fp) /\ Len(ip) + Len(fp) > 0
    THEN Returned(Norm(DigitsToNat(ip \o fp), 1, -Len(fp), -Len(fp)))
    ELSE Raised

UFloatAt(s, p) ==
    UFloatParts(IF p = 0 THEN s ELSE SubSeq(s, 1, p - 1),
                IF p = 0 THEN << >> ELSE SubSeq(s, p + 1, Len(s)))

\* unsigned literal
UFloat(s) == UFloatAt(s, PointAt(s))

\* r * factor for a result r, an exception left as it is
ScaleResult(r, factor) ==
    IF r.raised THEN Raised ELSE Returned(NumMul(r.v, factor))

\* float() of a string without surrounding blanks
PyFloatStripped(s) ==
    IF s = << >> THEN Raised
    ELSE IF Head(s) = "-" THEN ScaleResult(UFloat(Tail(s)), FromInt(-1))
    ELSE IF Head(s) = "+" THEN UFloat(Tail(s))
    ELSE UFloat(s)

PyFloat(str) == PyFloatStripped(StrStrip(str))

\* float(text) * factor, propagating ValueError
FloatTimes(txt, factor) == ScaleResult(PyFloat(txt), factor)

\* try: return r / except: return 0
OrZero(r) == IF r.raised THEN Returned(Zero) ELSE r

\* ------------------------------------------------------------------------
\* Unit parsers
\* ------------------------------------------------------------------------
\* mutant: the one-letter markers are tested before the two-letter ones
DurationShortFirst(s) ==
    IF Contains(s, <<"s">>)
        THEN FloatTimes(Remove(s, <<"s">>), FromInt(1))
    ELSE IF Contains(s, <<"m">>)
        THEN FloatTimes(Remove(s, <<"m">>), FromInt(60))
    ELSE IF EndsWith(s, <<"n">>)
        THEN FloatTimes(RStripChar(s, "n"), Pow10(-9))
    ELSE OrZero(PyFloat(s))

\* lines 119-137, s the lowered and stripped text
DurationOfText(s) ==
    IF Contains(s, <<"n", "s">>)
        THEN FloatTimes(Remove(s, <<"n", "s">>), Pow10(-9))
    ELSE IF EndsWith(s, <<"n">>)
        THEN FloatTimes(RStripChar(s, "n"), Pow10(-9))
    ELSE IF Contains(s, <<"m", "s">>)
        THEN FloatTimes(Remove(s, <<"m", "s">>), Pow10(-3))
    ELSE IF Contains(s, <<"u", "s">>)
        THEN FloatTimes(Remove(s, <<"u", "s">>), Pow10(-6))
    ELSE IF Contains(s, <<"s">>)
        THEN FloatTimes(Remove(s, <<"s">>), FromInt(1))
    ELSE IF Contains(s, <<"m">>)
        THEN FloatTimes(Remove(s, <<"m">>), FromInt(60))
    ELSE OrZero(PyFloat(s))

parse_duration_to_seconds(duration_str) ==
    IF ~Truthy(duration_str) THEN Returned(Zero)
    ELSE DurationOfText(StrStrip(Lower(PyStrOf(duration_str))))

\* mutant: the bare B is tested first, without looking for KB and MB
MemoryBytesFirst(s) ==
    IF Contains(s, <<"B">>)
        THEN FloatTimes(Remove(s, <<"B">>), Pow2(-20))
    ELSE OrZero(FloatTimes(s, Pow2(-20)))

\* lines 146-158, s the uppered text
MemoryOfText(s) ==
    IF Contains(s, <<"G", "B">>)
        THEN FloatTimes(Remove(s, <<"G", "B">>), FromInt(1024))
    ELSE IF Contains(s, <<"M", "B">>)
        THEN FloatTimes(Remove(s, <<"M", "B">>), FromInt(1))
    ELSE IF Contains(s, <<"K", "B">>)
        THEN FloatTimes(Remove(s, <<"K", "B">>), Pow2(-10))
    ELSE IF Contains(s, <<"B">>) /\ ~Contains(s, <<"K", "B">>)
                                /\ ~Contains(s, <<"M", "B">>)
        THEN FloatTimes(Remove(s, <<"B">>), Pow2(-20))
    ELSE OrZero(FloatTimes(s, Pow2(-20)))

parse_memory_to_mb(memory_str) ==
    IF ~Truthy(memory_str) THEN Returned(Zero)
    ELSE MemoryOfText(Upper(PyStrOf(memory_str)))

\* ------------------------------------------------------------------------
\* Program constants
\* ------------------------------------------------------------------------
ITERATIONS  == 5
WARMUP_RUNS == 1

Unknown == <<"u", "n", "k", "n", "o", "w", "n">>

\* ------------------------------------------------------------------------
\* The statistics response.  queryStats and outputStage.stageStats are dicts
\* over the field names the extractor probes; a missing key maps to Absent.
\* ------------------------------------------------------------------------
CpuFields     == <<"totalCpuTime", "cpuTime", "totalCpuTimeMillis">>
ElapsedFields == <<"elapsedTime", "executionTime", "elapsedTimeMillis">>
MemFields     == <<"peakMemoryReservation", "peakUserMemoryReservation",
                   "peakTotalMemoryReservation", "peakTaskUserMemory",
                   "peakUserMemory", "peakTotalMemory">>
StageFields   == <<"peakUserMemoryReservation", "peakMemoryReservation">>
RowFields     == <<"physicalInputRows", "processedInputRows", "rawInputRows",
                   "inputRows">>
OutFields     == <<"outputRows", "completedRows">>

Range(seq) == {seq[k] : k \in 1..Len(seq)}

StatKeys  == Range(CpuFields) \cup Range(ElapsedFields) \cup Range(MemFields)
             \cup Range(RowFields) \cup Range(OutFields)
StageKeys == Range(StageFields)

EmptyDict(keys) == [k \in keys |-> Absent]

\* ------------------------------------------------------------------------
\* get_query_stats_from_api
\* ------------------------------------------------------------------------
EmptyStats ==
    [empty |-> TRUE, query_id |-> PyNone, state |-> PyNone,
     cpu_time_str |-> PyNone, cpu_time_sec |-> Zero,
     elapsed_time_str |-> PyNone, elapsed_time_sec |-> Zero,
     peak_memory_str |-> PyNone, peak_memory_mb |-> Zero,
     physical_input_rows |-> PyNone, output_rows |-> PyNone,
     source |-> ""]

\* CPU Time: first truthy of the candidates, else '0ms'
ExtractCpuTime(stats) ==
    PyOr(DictGet(stats, "totalCpuTime"),
    PyOr(DictGet(stats, "cpuTime"),
    PyOr(DictGet(stats, "totalCpuTimeMillis"),
         PyStr(<<"0", "m", "s">>))))

ExtractElapsedTime(stats) ==
    PyOr(DictGet(stats, "elapsedTime"),
    PyOr(DictGet(stats, "executionTime"),
    PyOr(DictGet(stats, "elapsedTimeMillis"),
         PyStr(<<"0", "m", "s">>))))

ExtractTopPeakMemory(stats) ==
    PyOr(DictGet(stats, "peakMemoryReservation"),
    PyOr(DictGet(stats, "peakUserMemoryReservation"),
    PyOr(DictGet(stats, "peakTotalMemoryReservation"),
    PyOr(DictGet(stats, "peakTaskUserMemory"),
    PyOr(DictGet(stats, "peakUserMemory"),
         DictGet(stats, "peakTotalMemory"))))))

\* data.get('queryStats', {}); data.queryStats.kind is "absent", "notdict"
\* (null or any other non-dict) or "dict"
QueryStatsOf(data) ==
    IF data.queryStats.kind = "absent" THEN EmptyDict(StatKeys) ELSE data.queryStats.f

\* the outputStage fallback; data.outputStage.kind is
\*   "absent"  : no outputStage key
\*   "null"    : outputStage is null ('stageStats' in None raises TypeError)
\*   "nostats" : a dict without stageStats
\*   "badstats": a dict whose stageStats is null (None.get raises)
\*   "stats"   : a dict whose stageStats is the dict data.outputStage.f
StagePeakMemory(top, os) ==
    IF ~Truthy(top) /\ os.kind # "absent"
    THEN CASE os.kind = "null"     -> RaisedObj
           [] os.kind = "nostats"  -> [raised |-> FALSE, v |-> top]
           [] os.kind = "badstats" -> RaisedObj
           [] os.kind = "stats"    ->
                 [raised |-> FALSE,
                  v |-> PyOr(DictGet(os.f, "peakUserMemoryReservation"),
                             DictGet(os.f, "peakMemoryReservation"))]
    ELSE [raised |-> FALSE, v |-> top]

ExtractPeakMemory(data) ==
    StagePeakMemory(ExtractTopPeakMemory(QueryStatsOf(data)), data.outputStage)

ExtractInputRows(stats) ==
    PyOr(DictGet(stats, "physicalInputRows"),
    PyOr(DictGet(stats, "processedInputRows"),
    PyOr(DictGet(stats, "rawInputRows"),
    PyOr(DictGet(stats, "inputRows"),
         PyInt(0)))))

ExtractOutputRows(stats) ==
    PyOr(DictGet(stats, "outputRows"),
    PyOr(DictGet(stats, "completedRows"), PyInt(0)))

\* mutant: a value that cannot be parsed counts as 0 and the rest is kept
StatsRecordPartial(query_id, data, stats, cpu_time, cpu_sec, elapsed_time, elapsed_sec, pm, mem_mb) ==
    [empty |-> FALSE,
     query_id |-> query_id,
     state |-> IF data.state.t = "absent"
               THEN PyStr(<<"U", "N", "K", "N", "O", "W", "N">>)
               ELSE data.state,
     cpu_time_str |-> cpu_time,
     cpu_time_sec |-> IF cpu_sec.raised THEN Zero ELSE cpu_sec.v,
     elapsed_time_str |-> elapsed_time,
     elapsed_time_sec |-> IF elapsed_sec.raised THEN Zero ELSE elapsed_sec.v,
     peak_memory_str |-> IF ~pm.raised /\ Truthy(pm.v) THEN pm.v ELSE PyNone,
     peak_memory_mb |-> IF mem_mb.raised THEN Zero ELSE mem_mb.v,
     physical_input_rows |-> ExtractInputRows(stats),
     output_rows |-> ExtractOutputRows(stats),
     source |-> "REST API"]

\* the body of the `if response.status_code == 200` branch; an exception in
\* it is caught by the handlers of lines 241-246, which return {}
\* lines 221-233: the record, from the values extracted and parsed; an
\* exception raised on the way (pm, mem_mb, cpu_sec, elapsed_sec) is caught
\* by the handlers of lines 241-246
StatsRecord(query_id, data, stats, cpu_time, cpu_sec, elapsed_time, elapsed_sec, pm, mem_mb) ==
    IF pm.raised \/ mem_mb.raised \/ cpu_sec.raised \/ elapsed_sec.raised
    THEN EmptyStats
    ELSE [empty |-> FALSE,
          query_id |-> query_id,
          state |-> IF data.state.t = "absent"
                    THEN PyStr(<<"U", "N", "K", "N", "O", "W", "N">>)
                    ELSE data.state,
          cpu_time_str |-> cpu_time,
          cpu_time_sec |-> cpu_sec.v,
          elapsed_time_str |-> elapsed_time,
          elapsed_time_sec |-> elapsed_sec.v,
          peak_memory_str |-> IF Truthy(pm.v) THEN pm.v ELSE PyNone,
          peak_memory_mb |-> mem_mb.v,
          physical_input_rows |-> ExtractInputRows(stats),
          output_rows |-> ExtractOutputRows(stats),
          source |-> "REST API"]

\* line 209
PeakMemoryMbOf(pm) ==
    IF ~pm.raised /\ Truthy(pm.v) THEN parse_memory_to_mb(pm.v) ELSE Returned(Zero)

\* lines 181-233 on the values extracted
ParseExtracted(query_id, data, stats, cpu_time, elapsed_time, pm) ==
    StatsRecord(query_id, data, stats,
                cpu_time, parse_duration_to_seconds(cpu_time),
                elapsed_time, parse_duration_to_seconds(elapsed_time),
                pm, PeakMemoryMbOf(pm))

ExtractFrom(query_id, data, stats) ==
    ParseExtracted(query_id, data, stats, ExtractCpuTime(stats),
                   ExtractElapsedTime(stats), ExtractPeakMemory(data))

ParseStatsBody(query_id, data) ==
    IF ~data.isdict \/ data.queryStats.kind = "notdict" THEN EmptyStats
    ELSE ExtractFrom(query_id, data, QueryStatsOf(data))

\* mutant: a request is issued whatever the identifier
RequestsIssuedAlways(query_id) == 1

\* lines 165-175: the number of GET requests a call issues; the guard of line
\* 165 returns before the only requests.get, which no loop surrounds
RequestsIssued(query_id) ==
    IF ~Truthy(query_id) \/ query_id = PyStr(Unknown) THEN 0 ELSE 1

\* mutant: the status code is not looked at
get_query_stats_any_status(query_id, resp) ==
    IF ~Truthy(query_id) \/ query_id = PyStr(Unknown) THEN EmptyStats
    ELSE IF resp.kind = "neterr" THEN EmptyStats
    ELSE ParseStatsBody(query_id, resp.data)

\* resp.kind is "neterr" (requests.get raises), "status" (a response with
\* resp.code), and for code 200 resp.parseable tells whether response.json()
\* succeeds, giving resp.data
get_query_stats_from_api(query_id, resp) ==
    IF ~Truthy(query_id) \/ query_id = PyStr(Unknown) THEN EmptyStats
    ELSE IF resp.kind = "neterr" THEN EmptyStats
    ELSE IF resp.code = 200
         THEN IF resp.parseable THEN ParseStatsBody(query_id, resp.data)
              ELSE EmptyStats
    ELSE EmptyStats

\* ------------------------------------------------------------------------
\* measure_query_execution
\* ------------------------------------------------------------------------
\* an optional number: None or a value
NoneNum    == [some |-> FALSE, v |-> Zero]
SomeNum(x) == [some |-> TRUE,  v |-> x]

\* mutant: the handler records a fixed status, without the message
ExecuteAndFetchNoMessage(cur) ==
    IF cur.execute_raises
    THEN [query_id |-> PyNone, row_count |-> 0, status |-> "ERROR"]
    ELSE LET qid == IF cur.qid.t = "absent" THEN PyNone ELSE cur.qid
         IN IF cur.fetch_raises
            THEN [query_id |-> qid, row_count |-> 0, status |-> "ERROR"]
            ELSE [query_id |-> qid, row_count |-> cur.nrows, status |-> "SUCCESS"]

\* The cursor of one trial: whether execute raises, the query id the cursor
\* exposes after execute (Absent: no _query attribute), whether fetchall
\* raises, the number of rows fetched and the exception message.
\* Lines 253-269: the try block and its handler.
ExecuteAndFetch(cur) ==
    IF cur.execute_raises
    THEN [query_id |-> PyNone, row_count |-> 0, status |-> "ERROR: " \o cur.msg]
    ELSE LET qid == IF cur.qid.t = "absent" THEN PyNone ELSE cur.qid
         IN IF cur.fetch_raises
            THEN [query_id |-> qid, row_count |-> 0, status |-> "ERROR: " \o cur.msg]
            ELSE [query_id |-> qid, row_count |-> cur.nrows, status |-> "SUCCESS"]

\* input_rows or 0
BaselineRows(baseline) == IF Truthy(baseline) THEN FromInt(baseline.n) ELSE Zero

\* mutant: the server value is taken whenever it is truthy, without the > 0 test
ProcessedRowsNoSignTest(server_stats, baseline) ==
    IF ~server_stats.empty
    THEN LET server_input_rows == server_stats.physical_input_rows
         IN IF Truthy(server_input_rows)
            THEN IF server_input_rows.t = "str" THEN Raised
                 ELSE Returned(FromInt(server_input_rows.n))
            ELSE Returned(BaselineRows(baseline))
    ELSE Returned(BaselineRows(baseline))

\* lines 282-288 and 304; comparing a str with 0 raises TypeError
ProcessedRows(server_stats, baseline) ==
    IF ~server_stats.empty
    THEN LET server_input_rows == server_stats.physical_input_rows
         IN IF Truthy(server_input_rows)
            THEN IF server_input_rows.t = "str" THEN Raised
                 ELSE IF server_input_rows.n > 0
                      THEN Returned(FromInt(server_input_rows.n))
                      ELSE Returned(BaselineRows(baseline))
            ELSE Returned(BaselineRows(baseline))
    ELSE Returned(BaselineRows(baseline))

\* mutant: the server's elapsed time is never used
RuntimeClientOnly(server_stats, duration) == duration

\* mutant: the server's elapsed time is used when it is not 0
RuntimeNonZero(server_stats, duration) ==
    IF ~server_stats.empty
    THEN LET server_elapsed == server_stats.elapsed_time_sec
         IN IF ~IsZero(server_elapsed) THEN server_elapsed ELSE duration
    ELSE duration

\* lines 290-294 and 305
Runtime(server_stats, duration) ==
    IF ~server_stats.empty
    THEN LET server_elapsed == server_stats.elapsed_time_sec
         IN IF IsPos(server_elapsed) THEN server_elapsed ELSE duration
    ELSE duration

\* mutant: 0 is kept
ZeroKept(x) == SomeNum(x)

\* lines 296-300: convert 0 to None
ZeroToNone(x) == IF IsZero(x) THEN NoneNum ELSE SomeNum(x)

CpuSeconds(server_stats) ==
    IF ~server_stats.empty THEN ZeroToNone(server_stats.cpu_time_sec) ELSE NoneNum

PeakMemoryMb(server_stats) ==
    IF ~server_stats.empty THEN ZeroToNone(server_stats.peak_memory_mb) ELSE NoneNum

StatsSource(server_stats) ==
    IF ~server_stats.empty THEN server_stats.source ELSE "client-only"

\* mutant: the quotient is inverted
ThroughputInverted(processed_rows, runtime) ==
    IF ~IsZero(processed_rows) /\ IsPos(processed_rows) /\ IsPos(runtime)
    THEN NumDiv(runtime, processed_rows)
    ELSE Zero

\* lines 308-312
Throughput(processed_rows, runtime) ==
    IF ~IsZero(processed_rows) /\ IsPos(processed_rows) /\ IsPos(runtime)
    THEN NumDiv(processed_rows, runtime)
    ELSE Zero

\* the value of a call that ended in an uncaught exception
RaisedMetrics ==
    [raised |-> TRUE, runtime_sec |-> Zero, client_runtime_sec |-> Zero,
     rows_returned |-> 0, input_rows_processed |-> Zero,
     throughput_input_rows_per_sec |-> Zero,
     cpu_seconds |-> NoneNum, peak_memory_mb |-> NoneNum,
     status |-> "", query_id |-> PyNone, stats_source |-> "",
     server_stats |-> EmptyStats]

\* lines 314-326: the record, from the locals of the call
TrialRecord(ex, server_stats, processed_rows, runtime, duration) ==
    IF processed_rows.raised THEN RaisedMetrics
    ELSE [raised |-> FALSE,
          runtime_sec |-> runtime,
          client_runtime_sec |-> duration,
          rows_returned |-> ex.row_count,
          input_rows_processed |-> processed_rows.v,
          throughput_input_rows_per_sec |-> Throughput(processed_rows.v, runtime),
          cpu_seconds |-> CpuSeconds(server_stats),
          peak_memory_mb |-> PeakMemoryMb(server_stats),
          status |-> ex.status,
          query_id |-> PyOr(ex.query_id,
                            PyStr(<<"u", "n", "a", "v", "a", "i", "l", "a", "b", "l", "e">>)),
          stats_source |-> StatsSource(server_stats),
          server_stats |-> server_stats]

\* lines 277-326
Reconcile(ex, server_stats, baseline, duration) ==
    TrialRecord(ex, server_stats, ProcessedRows(server_stats, baseline),
                Runtime(server_stats, duration), duration)

\* lines 271-326
MeasureAfter(ex, resp, baseline, duration) ==
    Reconcile(ex, get_query_stats_from_api(ex.query_id, resp), baseline,
              duration)

measure_query_execution(cur, resp, baseline, duration) ==
    MeasureAfter(ExecuteAndFetch(cur), resp, baseline, duration)

\* ------------------------------------------------------------------------
\* run_benchmark: the part of one measurement iteration after the call
\* ------------------------------------------------------------------------
\* a CSV cell for an optional number: '' when None
EmptyCell  == [kind |-> "empty", v |-> Zero]
NumCell(x) == [kind |-> "num", v |-> x]
\* mutant: None is written as the number it defaults to
OptCellAsNumber(o) == NumCell(o.v)

OptCell(o) == IF o.some THEN NumCell(o.v) ELSE EmptyCell

\* lines 466-479
CsvRow(name, k, m) ==
    [system |-> "trino",
     query_pattern |-> name,
     iteration |-> k + 1,
     runtime_sec |-> m.runtime_sec,
     client_runtime_sec |-> m.client_runtime_sec,
     input_rows_processed |-> m.input_rows_processed,
     rows_returned |-> m.rows_returned,
     throughput_input_rows_per_sec |-> m.throughput_input_rows_per_sec,
     cpu_seconds |-> OptCell(m.cpu_seconds),
     peak_memory_mb |-> OptCell(m.peak_memory_mb),
     status |-> m.status,
     query_id |-> m.query_id]

\* mutant: a missing value is recorded as the 0 it stands for
AppendSampleOrZero(list, o) == Append(list, o.v)

\* lines 448-451: a sample joins the list when it is not None and > 0
AppendSample(list, o) == IF o.some /\ IsPos(o.v) THEN Append(list, o.v) ELSE list

\* ------------------------------------------------------------------------
\* The inputs of a trial
\* ------------------------------------------------------------------------
\* at most this many peak-memory fields are present in a generated body
MaxMemFields == 2

Str0ms   == PyStr(<<"0", "m", "s">>)
Str2s    == PyStr(<<"2", "s">>)
StrNeg1s == PyStr(<<"-", "1", "s">>)
StrBadS  == PyStr(<<"x", "s">>)
Str0B    == PyStr(<<"0", "B">>)
Str128MB == PyStr(<<"1", "2", "8", "M", "B">>)
StrBadMB == PyStr(<<"x", "M", "B">>)
Str7     == PyStr(<<"7">>)
Finished == PyStr(<<"F", "I", "N", "I", "S", "H", "E", "D">>)
QueryId1 == PyStr(<<"q", "1">>)

\* JSON values of a duration field, a memory field and a row-count field
DurVals == {Absent, PyNone, PyInt(0), Str0ms, Str2s, StrNeg1s, StrBadS}
MemVals == {Absent, PyNone, PyInt(0), Str0B, Str128MB, StrBadMB}
RowVals == {Absent, PyNone, PyInt(0), PyInt(1000), PyInt(-1), Str7}

\* dict with the entries of upd replacing those of base
WithFields(base, upd) ==
    [k \in DOMAIN base |-> IF k \in DOMAIN upd THEN upd[k] ELSE base[k]]

Body(state, stats, oskind, stage) ==
    [isdict |-> TRUE, state |-> state,
     queryStats  |-> [kind |-> "dict", f |-> stats],
     outputStage |-> [kind |-> oskind, f |-> stage]]

NoStats == EmptyDict(StatKeys)
NoStage == EmptyDict(StageKeys)

\* one candidate of each metric, all combinations
PrimaryBodies ==
    {Body(Finished,
          WithFields(NoStats, [totalCpuTime |-> c, elapsedTime |-> e,
                               peakUserMemoryReservation |-> m,
                               physicalInputRows |-> r]),
          "absent", NoStage) :
        c \in DurVals, e \in DurVals, m \in MemVals, r \in RowVals}

\* all candidates of one metric, all combinations
CandidateBodies ==
    {Body(Finished, WithFields(NoStats, f), "absent", NoStage) :
        f \in [Range(CpuFields) -> DurVals] \cup [Range(ElapsedFields) -> DurVals]
              \cup [Range(RowFields) -> RowVals]}

\* the values of the fields present in a body of MemoryBodies
MemFieldVals == {PyNone, PyInt(0), Str0B, Str128MB}

\* peak memory: at most MaxMemFields fields present among the top-level
\* candidates and the stageStats candidates
MemoryBodies ==
    UNION {UNION {{Body(Finished, WithFields(NoStats, ft), "stats", WithFields(NoStage, fg)) :
                     ft \in [T -> MemFieldVals], fg \in [G -> MemFieldVals]} :
                  G \in {H \in SUBSET StageKeys :
                           Cardinality(T) + Cardinality(H) <= MaxMemFields}} :
           T \in {U \in SUBSET Range(MemFields) : Cardinality(U) <= MaxMemFields}}

\* the shapes of the response: state present or not, queryStats missing or
\* not a dict, outputStage of every kind
ShapeBodies ==
    {[isdict |-> TRUE, state |-> st,
      queryStats  |-> [kind |-> qk, f |-> WithFields(NoStats, [peakMemoryReservation |-> m])],
      outputStage |-> [kind |-> ok, f |-> NoStage]] :
        st \in {Absent, Finished}, qk \in {"absent", "notdict", "dict"},
        m \in {Absent, Str128MB}, ok \in {"absent", "null", "nostats", "badstats", "stats"}}
    \cup {[isdict |-> FALSE, state |-> Absent,
           queryStats  |-> [kind |-> "absent", f |-> NoStats],
           outputStage |-> [kind |-> "absent", f |-> NoStage]]}

Bodies == PrimaryBodies \cup CandidateBodies \cup MemoryBodies \cup ShapeBodies

FullBody ==
    Body(Finished,
         WithFields(NoStats, [totalCpuTime |-> Str2s, elapsedTime |-> Str2s,
                              peakUserMemoryReservation |-> Str128MB,
                              physicalInputRows |-> PyInt(1000)]),
         "absent", NoStage)

NetErr       == [kind |-> "neterr", code |-> 0, parseable |-> FALSE, data |-> FullBody]
Status(code) == [kind |-> "status", code |-> code, parseable |-> FALSE, data |-> FullBody]
Ok(data)     == [kind |-> "status", code |-> 200, parseable |-> TRUE, data |-> data]

Responses == {NetErr, Status(401), Status(500), Status(200)} \cup {Ok(b) : b \in Bodies}

Cursors ==
    {[execute_raises |-> TRUE, qid |-> Absent, fetch_raises |-> FALSE,
      nrows |-> 0, msg |-> "boom"]}
    \cup {[execute_raises |-> FALSE, qid |-> q, fetch_raises |-> fr,
           nrows |-> IF fr THEN 0 ELSE 5, msg |-> IF fr THEN "lost" ELSE ""] :
            q \in {Absent, PyNone, PyStr(<< >>), PyStr(Unknown), QueryId1},
            fr \in BOOLEAN}

\* the statistics endpoint knows only the identifiers the engine assigned
KnownId(cur) == ~cur.execute_raises /\ cur.qid = QueryId1

ResponsesFor(cur) == IF KnownId(cur) THEN Responses ELSE {NetErr, Ok(FullBody)}

Baselines       == {PyNone, PyInt(0), PyInt(1000)}
ClientDurations == {Zero, FromInt(3)}

\* ------------------------------------------------------------------------
\* State
\* ------------------------------------------------------------------------
VARIABLES
    cursor,           \* the behaviour of the cursor in this trial
    response,         \* what the statistics endpoint answers
    input_rows,       \* the baseline row estimate (total_table_rows)
    client_duration,  \* end_time - start_time
    q_file, i,        \* the pattern and the iteration index of the loop
    pc,               \* the position of the program
    metrics,          \* the record returned by measure_query_execution
    runtimes, throughputs, cpu_times, memories,
    csv,              \* the data rows handed to the CSV writer so far
    requests,         \* GET requests issued by the latest step
    text, seconds, megabytes,
                      \* the argument of the parsers and what they returned
    query_files,      \* the sorted *.sql names of QUERY_DIR
    all_stats,        \* the sample lists of the patterns completed
    stats_summary,    \* the medians written to STATS_FILE
    files,            \* the artifacts that exist in OUTPUT_DIR
    disk,             \* the data rows that have reached OUTPUT_FILE
    log,              \* the statements of the current pattern executed so far
    now,              \* what time.time() returns
    start_time, end_time,
    in_flight,        \* the calls to the server that have not come back
    events            \* the steps taken so far, each with its statement and time

trial == <<cursor, response, input_rows, client_duration, q_file, i, metrics,
           runtimes, throughputs, cpu_times, memories, csv, requests>>

parsed == <<text, seconds, megabytes>>

run == <<query_files, all_stats, stats_summary, files, disk, log>>

steps == <<now, start_time, end_time, in_flight, events>>

vars == <<trial, pc, parsed, run, steps>>

inputs == <<cursor, response, input_rows, client_duration, q_file, i>>

\* the parsers have not been called
NothingParsed == text = PyNone /\ seconds = Returned(Zero) /\ megabytes = Returned(Zero)

\* run_benchmark has touched nothing
NothingRun ==
    /\ query_files = << >> /\ all_stats = << >> /\ stats_summary = << >>
    /\ files = {} /\ disk = << >> /\ log = << >>

\* no statement has been stepped through
NothingStepped ==
    /\ now = 0 /\ start_time = 0 /\ end_time = 0
    /\ in_flight = {} /\ events = << >>

Init ==
    /\ cursor \in Cursors
    /\ response \in ResponsesFor(cursor)
    /\ input_rows \in Baselines
    /\ client_duration \in ClientDurations
    /\ q_file = "q1.sql"
    /\ i = 0
    /\ pc = "start"
    /\ metrics = RaisedMetrics
    /\ runtimes = << >> /\ throughputs = << >> /\ cpu_times = << >> /\ memories = << >>
    /\ csv = << >>
    /\ requests = 0
    /\ NothingParsed
    /\ NothingRun
    /\ NothingStepped

\* line 442: the call returns a record
MeasureReturns ==
    /\ pc = "start"
    /\ LET m == measure_query_execution(cursor, response, input_rows, client_duration)
       IN ~m.raised /\ metrics' = m
    /\ requests' = RequestsIssued(ExecuteAndFetch(cursor).query_id)
    /\ pc' = "measured"
    /\ UNCHANGED <<inputs, runtimes, throughputs, cpu_times, memories, csv, parsed, run, steps>>

\* line 442: the call ends in an exception, which nothing in run_benchmark
\* catches
MeasureRaises ==
    /\ pc = "start"
    /\ measure_query_execution(cursor, response, input_rows, client_duration).raised
    /\ requests' = RequestsIssued(ExecuteAndFetch(cursor).query_id)
    /\ pc' = "raised"
    /\ UNCHANGED <<inputs, metrics, runtimes, throughputs, cpu_times, memories, csv,
                   parsed, run, steps>>

\* mutant: the samples are taken whatever the status
RecordAll(m) ==
    /\ runtimes' = Append(runtimes, m.runtime_sec)
    /\ throughputs' = Append(throughputs, m.throughput_input_rows_per_sec)
    /\ cpu_times' = AppendSample(cpu_times, m.cpu_seconds)
    /\ memories' = AppendSample(memories, m.peak_memory_mb)
    /\ csv' = Append(csv, CsvRow(q_file, i, m))

\* lines 444-451 and 466-479: the accumulators and the CSV row of the
\* iteration that measured m
Record(m) ==
    /\ IF m.status = "SUCCESS"
       THEN /\ runtimes' = Append(runtimes, m.runtime_sec)
            /\ throughputs' = Append(throughputs, m.throughput_input_rows_per_sec)
            /\ cpu_times' = AppendSample(cpu_times, m.cpu_seconds)
            /\ memories' = AppendSample(memories, m.peak_memory_mb)
       ELSE UNCHANGED <<runtimes, throughputs, cpu_times, memories>>
    /\ csv' = Append(csv, CsvRow(q_file, i, m))

\* lines 444-479: the accumulators and the CSV row
RecordTrial ==
    /\ pc = "measured"
    /\ Record(metrics)
    /\ pc' = "written"
    /\ UNCHANGED <<inputs, metrics, requests, parsed, run, steps>>

Next == MeasureReturns \/ MeasureRaises \/ RecordTrial

Spec == Init /\ [][Next]_vars

\* ------------------------------------------------------------------------
\* Properties
\* ------------------------------------------------------------------------
\* the call has returned a record
Returns == pc \in {"measured", "written"}

\* the record the extractor returned in this trial
Stats == metrics.server_stats

\* the statistics request of this trial was answered with a parsed body
Answered == KnownId(cursor) /\ response.kind = "status" /\ response.code = 200
            /\ response.parseable

\* the baseline estimate, 0 if absent
BaselineOrZero == IF input_rows.t = "int" THEN FromInt(input_rows.n) ELSE Zero

\* C1: measure_query_execution never raises, whatever the cursor does, whatever
\* the statistics endpoint answers and whatever the baseline estimate is: the
\* call always returns a trial record.
C1_NeverRaises == pc # "raised"

\* C2: in every trial runtime_sec is the extractor's elapsed_time_sec when the
\* extractor returned a record whose elapsed_time_sec is > 0, and the client
\* wall-clock duration in every other case.
C2_RuntimeSource ==
    Returns =>
        /\ metrics.client_runtime_sec = client_duration
        /\ metrics.runtime_sec =
              IF ~Stats.empty /\ IsPos(Stats.elapsed_time_sec)
              THEN Stats.elapsed_time_sec
              ELSE client_duration

\* a trial whose runtime is the server's elapsed time, not the client's
C2_Witness ==
    /\ pc = "measured"
    /\ ~Stats.empty /\ IsPos(Stats.elapsed_time_sec)
    /\ metrics.runtime_sec = Stats.elapsed_time_sec
    /\ metrics.runtime_sec # client_duration

NotNumberZero(opt)  == ~(opt.some /\ IsZero(opt.v))
NotZeroCell(cell)   == ~(cell.kind = "num" /\ IsZero(cell.v))

\* C3: cpu_seconds and peak_memory_mb are never the number 0, neither in the
\* record returned by measure_query_execution nor in a CSV row: each is absent
\* (None in the record, the empty string in the row) or a non-zero number.
C3_NeverZero ==
    /\ Returns => /\ NotNumberZero(metrics.cpu_seconds)
                  /\ NotNumberZero(metrics.peak_memory_mb)
    /\ \A k \in 1..Len(csv) :
          /\ NotZeroCell(csv[k].cpu_seconds)
          /\ NotZeroCell(csv[k].peak_memory_mb)
          /\ csv[k].cpu_seconds.kind = "empty" <=> ~metrics.cpu_seconds.some
          /\ csv[k].peak_memory_mb.kind = "empty" <=> ~metrics.peak_memory_mb.some

\* a row written for a trial whose server record carries a CPU time of 0 and
\* no peak memory
C3_Witness ==
    /\ pc = "written"
    /\ ~Stats.empty /\ IsZero(Stats.cpu_time_sec) /\ IsZero(Stats.peak_memory_mb)
    /\ csv[1].cpu_seconds = EmptyCell /\ csv[1].peak_memory_mb = EmptyCell

\* the statistics request failed: network error, non-200 status, or a 200
\* body that is not JSON
RequestFailed ==
    \/ response.kind = "neterr"
    \/ response.kind = "status" /\ response.code # 200
    \/ response.kind = "status" /\ response.code = 200 /\ ~response.parseable

\* C4: if the statistics request fails (network error, any non-200 status, a
\* 200 body that is not JSON) the extractor returns an empty record and the
\* trial completes with stats_source 'client-only', cpu_seconds and
\* peak_memory_mb None, input_rows_processed the baseline estimate (0 if
\* absent) and runtime_sec the client wall-clock duration; nothing propagates.
C4_SoftFailure ==
    RequestFailed =>
        /\ pc # "raised"
        /\ Returns =>
              /\ Stats.empty
              /\ metrics.stats_source = "client-only"
              /\ metrics.cpu_seconds = NoneNum
              /\ metrics.peak_memory_mb = NoneNum
              /\ metrics.input_rows_processed = BaselineOrZero
              /\ metrics.runtime_sec = client_duration

\* a trial whose statistics request was answered 401
C4_Witness ==
    /\ pc = "measured"
    /\ KnownId(cursor) /\ response = Status(401)
    /\ metrics.stats_source = "client-only"
    /\ IsPos(metrics.input_rows_processed)

\* execute or fetchall raised in this trial
ExecutionFailed == cursor.execute_raises \/ cursor.fetch_raises

\* C5 (as claimed): every trial in which execute or fetchall raised has an
\* error status embedding the message, rows_returned 0, cpu_seconds and
\* peak_memory_mb absent, and input_rows_processed and throughput zero.
C5_FailureZeroed ==
    (Returns /\ ExecutionFailed) =>
        /\ metrics.status = "ERROR: " \o cursor.msg
        /\ metrics.rows_returned = 0
        /\ metrics.cpu_seconds = NoneNum
        /\ metrics.peak_memory_mb = NoneNum
        /\ IsZero(metrics.input_rows_processed)
        /\ IsZero(metrics.throughput_input_rows_per_sec)

\* C5 (amended): every trial in which execute or fetchall raised has an error
\* status embedding the message and rows_returned 0; its metrics are
\* reconciled as in any other trial: no statistics record is obtained when
\* execute raised, and without a record cpu_seconds and peak_memory_mb are
\* absent, input_rows_processed is the baseline estimate (0 if absent) and
\* throughput is baseline / client duration when both are positive, else 0.
C5_FailureRecorded ==
    (Returns /\ ExecutionFailed) =>
        /\ metrics.status = "ERROR: " \o cursor.msg
        /\ metrics.status # "SUCCESS"
        /\ metrics.rows_returned = 0
        /\ cursor.execute_raises => Stats.empty
        /\ Stats.empty =>
              /\ metrics.cpu_seconds = NoneNum
              /\ metrics.peak_memory_mb = NoneNum
              /\ metrics.input_rows_processed = BaselineOrZero
              /\ metrics.throughput_input_rows_per_sec =
                    IF IsPos(BaselineOrZero) /\ IsPos(client_duration)
                    THEN NumDiv(BaselineOrZero, client_duration)
                    ELSE Zero

\* a failed execute whose record carries the baseline rows and a throughput
C5_Witness ==
    /\ pc = "measured"
    /\ cursor.execute_raises
    /\ metrics.status = "ERROR: boom"
    /\ metrics.input_rows_processed = FromInt(1000)
    /\ IsPos(metrics.throughput_input_rows_per_sec)

\* the value of the first field of an ordered candidate list that is present
\* and not null in the dict; Absent when there is none
RECURSIVE FirstPresentNonNull(_, _)
FirstPresentNonNull(dict, fields) ==
    IF fields = << >> THEN Absent
    ELSE IF dict[Head(fields)].t \notin {"absent", "none"} THEN dict[Head(fields)]
    ELSE FirstPresentNonNull(dict, Tail(fields))

SomePresent(dict, fields) == \E k \in Range(fields) : dict[k].t # "absent"

\* the queryStats dict of the answered request
AnsweredStats == QueryStatsOf(response.data)

\* the extractor's value is the first present, non-null candidate, if any
TakesFirst(value, fields) ==
    LET first == FirstPresentNonNull(AnsweredStats, fields)
    IN first # Absent => value = first

\* C6: on a 200 response the extractor takes, for CPU time, elapsed time,
\* peak memory and input rows, the value of the first candidate field that is
\* present and non-null in queryStats (a present 0 included), never a later
\* one; the outputStage.stageStats fields are consulted for peak memory only
\* when no top-level candidate is present.
C6_FirstPresentNonNull ==
    (Returns /\ Answered /\ ~Stats.empty) =>
        /\ TakesFirst(Stats.cpu_time_str, CpuFields)
        /\ TakesFirst(Stats.elapsed_time_str, ElapsedFields)
        /\ TakesFirst(Stats.physical_input_rows, RowFields)
        /\ TakesFirst(ExtractPeakMemory(response.data).v, MemFields)
        /\ SomePresent(AnsweredStats, MemFields) =>
              ExtractPeakMemory(response.data).v = ExtractTopPeakMemory(AnsweredStats)

\* the physical_input_rows of the extractor's record, when it is a number > 0
ServerRowsPositive ==
    ~Stats.empty /\ Stats.physical_input_rows.t = "int" /\ Stats.physical_input_rows.n > 0

\* C7: input_rows_processed is the extractor's physical_input_rows when that
\* is present and > 0, otherwise the baseline row estimate, otherwise 0.
C7_ProcessedRows ==
    Returns =>
        metrics.input_rows_processed =
            IF ServerRowsPositive THEN FromInt(Stats.physical_input_rows.n)
            ELSE BaselineOrZero

\* a trial whose server row count is negative and whose record carries the
\* baseline instead
C7_Witness ==
    /\ pc = "measured"
    /\ ~Stats.empty /\ Stats.physical_input_rows = PyInt(-1)
    /\ input_rows = PyInt(1000)
    /\ metrics.input_rows_processed = FromInt(1000)

\* C8: throughput is input_rows_processed / runtime_sec when both are > 0 and
\* 0 otherwise, so it is > 0 exactly when both are.
C8_Throughput ==
    Returns =>
        LET rows == metrics.input_rows_processed
            time == metrics.runtime_sec
            tput == metrics.throughput_input_rows_per_sec
        IN /\ tput = IF IsPos(rows) /\ IsPos(time) THEN NumDiv(rows, time) ELSE Zero
           /\ IsPos(tput) <=> (IsPos(rows) /\ IsPos(time))
           /\ ~IsNeg(tput)

\* 1000 rows in 2 seconds of server time: 500 rows per second
C8_Witness ==
    /\ pc = "measured"
    /\ metrics.input_rows_processed = FromInt(1000)
    /\ metrics.runtime_sec = FromInt(2)
    /\ client_duration = FromInt(3)
    /\ metrics.throughput_input_rows_per_sec = FromInt(500)

\* the server statistics reported a CPU time (a peak memory) of exactly zero
CpuMeasuredZero ==
    ~Stats.empty /\ FirstPresentNonNull(AnsweredStats, CpuFields) # Absent
    /\ IsZero(Stats.cpu_time_sec)

MemMeasuredZero ==
    ~Stats.empty /\ Truthy(Stats.peak_memory_str) /\ IsZero(Stats.peak_memory_mb)

\* C9 (as claimed): a trial whose server statistics reported a CPU time (a
\* peak memory) of exactly zero does not get the cpu_seconds (peak_memory_mb)
\* that a trial without a server value gets.
C9_ZeroDistinguished ==
    Returns =>
        /\ CpuMeasuredZero => metrics.cpu_seconds # CpuSeconds(EmptyStats)
        /\ MemMeasuredZero => metrics.peak_memory_mb # PeakMemoryMb(EmptyStats)

\* C9 (amended): the record does not tell a measured zero from an unmeasured
\* value: cpu_seconds (peak_memory_mb) is None when the server reported
\* exactly zero as well as when no server value was available, and it is the
\* server's value exactly when the extractor's record holds a non-zero one.
C9_ZeroIsNone ==
    Returns =>
        /\ metrics.cpu_seconds =
              IF ~Stats.empty /\ ~IsZero(Stats.cpu_time_sec)
              THEN SomeNum(Stats.cpu_time_sec) ELSE NoneNum
        /\ metrics.peak_memory_mb =
              IF ~Stats.empty /\ ~IsZero(Stats.peak_memory_mb)
              THEN SomeNum(Stats.peak_memory_mb) ELSE NoneNum
        /\ CpuMeasuredZero => metrics.cpu_seconds = CpuSeconds(EmptyStats)
        /\ MemMeasuredZero => metrics.peak_memory_mb = PeakMemoryMb(EmptyStats)

\* a trial whose server reported a CPU time of '0ms' and a peak memory of '0B'
C9_Witness ==
    /\ pc = "measured"
    /\ CpuMeasuredZero /\ MemMeasuredZero
    /\ Stats.cpu_time_str = Str0ms /\ Stats.peak_memory_str = Str0B
    /\ metrics.cpu_seconds = NoneNum /\ metrics.peak_memory_mb = NoneNum

\* C10: a trial with status SUCCESS and a positive client wall-clock duration
\* has runtime_sec > 0, whatever the statistics endpoint returned.
C10_RuntimePositive ==
    (Returns /\ metrics.status = "SUCCESS" /\ IsPos(metrics.client_runtime_sec)) =>
        IsPos(metrics.runtime_sec)

\* a successful trial whose server reported a negative elapsed time
C10_Witness ==
    /\ pc = "measured"
    /\ metrics.status = "SUCCESS"
    /\ ~Stats.empty /\ IsNeg(Stats.elapsed_time_sec)
    /\ IsPos(metrics.runtime_sec)

\* the cursor exposed an identifier that is neither missing nor the sentinel
IdentifierCaptured ==
    /\ ~cursor.execute_raises
    /\ cursor.qid \notin {Absent, PyNone, PyStr(<< >>), PyStr(Unknown)}

\* C11: get_query_stats_from_api issues no HTTP request when the identifier
\* is missing (None or empty) or the sentinel 'unknown', and exactly one GET
\* otherwise; so a trial issues at most one statistics request, and none when
\* no identifier was captured from the cursor, whatever the endpoint answers.
C11_AtMostOneRequest ==
    /\ requests \in {0, 1}
    /\ pc \in {"measured", "raised", "written"} =>
          requests = IF IdentifierCaptured THEN 1 ELSE 0

\* a trial whose cursor exposed the sentinel: no request, a client-only record
C11_Witness ==
    /\ pc = "measured"
    /\ cursor.qid = PyStr(Unknown) /\ ~cursor.fetch_raises
    /\ requests = 0
    /\ metrics.stats_source = "client-only"

\* ------------------------------------------------------------------------
\* The parsers on their own: one argument, parse_duration_to_seconds and then
\* parse_memory_to_mb applied to it.  A call that raises leaves a result with
\* raised = TRUE.
\* ------------------------------------------------------------------------
\* the longest text made of arbitrary characters
MaxTextLen == 3

\* digits, the point, the blank, the unit letters of both parsers and a
\* letter that belongs to no unit
Alphabet == {"1", ".", " ", "n", "s", "m", "u", "G", "M", "K", "B", "x"}

ShortTexts == UNION {[1..n -> Alphabet] : n \in 0..MaxTextLen}

\* numeric literals with their values
Lit(s, v) == [s |-> s, v |-> v]

Literals ==
    {Lit(<<"5">>, FromInt(5)),
     Lit(<<"0">>, Zero),
     Lit(<<"2">>, FromInt(2)),
     Lit(<<"-", "2">>, FromInt(-2)),
     Lit(<<"1", "0", "0">>, FromInt(100)),
     Lit(<<"5", "1", "2">>, FromInt(512)),
     Lit(<<".", "5">>, Norm(1, 2, 0, 0)),
     Lit(<<"1", ".", "2">>, Norm(12, 10, 0, 0)),
     Lit(<<"1", ".", "2", "3">>, Norm(123, 100, 0, 0)),
     Lit(<<"2", "5", "6", ".", "5">>, Norm(2565, 10, 0, 0)),
     Lit(<<"4", "5", "6", ".", "7", "8">>, Norm(45678, 100, 0, 0)),
     Lit(<<"1", "0", "4", "8", "5", "7", "6">>, FromInt(1048576))}

\* unit markers as they may be written, with the factor each stands for
Unit(s, factor) == [s |-> s, factor |-> factor]

DurationUnits ==
    {Unit(<<"n", "s">>, Pow10(-9)), Unit(<<"n">>, Pow10(-9)),
     Unit(<<"m", "s">>, Pow10(-3)), Unit(<<"u", "s">>, Pow10(-6)),
     Unit(<<"s">>, FromInt(1)),     Unit(<<"m">>, FromInt(60)),
     Unit(<< >>, FromInt(1)),
     Unit(<<"N", "S">>, Pow10(-9)), Unit(<<"M", "s">>, Pow10(-3)),
     Unit(<<"U", "S">>, Pow10(-6)), Unit(<<"S">>, FromInt(1)),
     Unit(<<"M">>, FromInt(60)),    Unit(<<" ", "m", "s">>, Pow10(-3)),
     Unit(<<"s", " ">>, FromInt(1))}

MemoryUnits ==
    {Unit(<<"G", "B">>, FromInt(1024)), Unit(<<"M", "B">>, FromInt(1)),
     Unit(<<"K", "B">>, Pow2(-10)),     Unit(<<"B">>, Pow2(-20)),
     Unit(<< >>, Pow2(-20)),
     Unit(<<"g", "b">>, FromInt(1024)), Unit(<<"M", "b">>, FromInt(1)),
     Unit(<<"k", "B">>, Pow2(-10)),     Unit(<<"b">>, Pow2(-20)),
     Unit(<<" ", "M", "B">>, FromInt(1))}

SuffixedTexts == {l.s \o u.s : l \in Literals, u \in DurationUnits \cup MemoryUnits}

\* what the extractor may hand to a parser: None, a JSON number, a JSON string
ParserArgs ==
    {PyNone, PyInt(0), PyInt(5), PyInt(1048576)}
    \cup {PyStr(s) : s \in ShortTexts \cup SuffixedTexts}

\* no trial has been run
NothingMeasured ==
    /\ cursor = [execute_raises |-> TRUE, qid |-> Absent, fetch_raises |-> FALSE,
                 nrows |-> 0, msg |-> "boom"]
    /\ response = NetErr
    /\ input_rows = PyNone
    /\ client_duration = Zero
    /\ q_file = "" /\ i = 0
    /\ metrics = RaisedMetrics
    /\ runtimes = << >> /\ throughputs = << >> /\ cpu_times = << >> /\ memories = << >>
    /\ csv = << >>
    /\ requests = 0

ParserInit ==
    /\ text \in ParserArgs
    /\ seconds = Returned(Zero) /\ megabytes = Returned(Zero)
    /\ pc = "parse"
    /\ NothingMeasured
    /\ NothingRun
    /\ NothingStepped

\* lines 112-137
ParseDuration ==
    /\ pc = "parse"
    /\ seconds' = parse_duration_to_seconds(text)
    /\ pc' = "duration"
    /\ UNCHANGED <<trial, text, megabytes, run, steps>>

\* lines 139-158
ParseMemory ==
    /\ pc = "duration"
    /\ megabytes' = parse_memory_to_mb(text)
    /\ pc' = "memory"
    /\ UNCHANGED <<trial, text, seconds, run, steps>>

ParserNext == ParseDuration \/ ParseMemory

ParserSpec == ParserInit /\ [][ParserNext]_vars

DurationParsed == pc \in {"duration", "memory"}
MemoryParsed   == pc = "memory"

\* C12: parse_duration_to_seconds and parse_memory_to_mb never raise: for every
\* input (None, empty, a unit marker with a non-numeric remainder, several
\* unit letters, an unknown unit) they return a number.
C12_ParsersNeverRaise ==
    /\ DurationParsed => ~seconds.raised
    /\ MemoryParsed => ~megabytes.raised

\* C13: for every numeric value v, parse_duration_to_seconds returns v/1e9
\* for v followed by 'ns' (or a trailing bare 'n'), v/1e3 for 'ms', v/1e6 for
\* 'us', v for 's', v*60 for 'm', v for the bare numeric string, and 0 for
\* empty or None input; the markers are tested in the order ns, ms, us, s, m,
\* bare numeric, so no input carrying one of these suffixes is routed to the
\* branch of a shorter suffix it contains.
C13_DurationUnits ==
    DurationParsed =>
        /\ text \in {PyNone, PyStr(<< >>), PyInt(0)} => seconds = Returned(Zero)
        /\ text = PyInt(5) => seconds = Returned(FromInt(5))
        /\ \A l \in Literals, u \in DurationUnits :
              text = PyStr(l.s \o u.s) => seconds = Returned(NumMul(l.v, u.factor))

\* '100ns' parsed to 1e-7 seconds
C13_Witness ==
    /\ pc = "duration"
    /\ text = PyStr(<<"1", "0", "0", "n", "s">>)
    /\ seconds = Returned(Pow10(-7))

\* C14: for every numeric value v, parse_memory_to_mb returns v*1024 for v
\* followed by 'GB', v for 'MB', v/1024 for 'KB', v/1024^2 for a bare 'B'
\* suffix (when neither 'KB' nor 'MB' occurs in the string), v/1024^2 for the
\* bare numeric string, and 0 for empty or None input.
C14_MemoryUnits ==
    MemoryParsed =>
        /\ text \in {PyNone, PyStr(<< >>), PyInt(0)} => megabytes = Returned(Zero)
        /\ text = PyInt(1048576) => megabytes = Returned(FromInt(1))
        /\ \A l \in Literals, u \in MemoryUnits :
              text = PyStr(l.s \o u.s) => megabytes = Returned(NumMul(l.v, u.factor))

\* '1.2GB' parsed to 1228.8 megabytes
C14_Witness ==
    /\ pc = "memory"
    /\ text = PyStr(<<"1", ".", "2", "G", "B">>)
    /\ megabytes = Returned(Norm(12288, 10, 0, 0))

\* ------------------------------------------------------------------------
\* statistics.median on exact numbers
\* ------------------------------------------------------------------------
RECURSIVE IntPow(_, _)
IntPow(b, e) == IF e = 0 THEN 1 ELSE b * IntPow(b, e - 1)

Min(a, b) == IF a < b THEN a ELSE b

\* the numerator of x over x.d once 2^a * 5^b is factored out
Scaled(x, a, b) == x.n * IntPow(2, x.p2 - a) * IntPow(5, x.p5 - b)

NumAddAt(x, y, a, b) ==
    Norm(Scaled(x, a, b) * y.d + Scaled(y, a, b) * x.d, x.d * y.d, a, b)

NumAdd(x, y) == NumAddAt(x, y, Min(x.p2, y.p2), Min(x.p5, y.p5))

NumLess(x, y) == IsNeg(NumAdd(x, NumMul(FromInt(-1), y)))

\* sorted(data)
RECURSIVE Insert(_, _)
Insert(x, s) ==
    IF s = << >> THEN <<x>>
    ELSE IF NumLess(Head(s), x) THEN <<Head(s)>> \o Insert(x, Tail(s))
    ELSE <<x>> \o s

RECURSIVE Sorted(_)
Sorted(s) == IF s = << >> THEN << >> ELSE Insert(Head(s), Sorted(Tail(s)))

\* mutant: the upper middle element, whatever the parity
MedianUpperMiddle(data, n) == data[(n \div 2) + 1]

\* the middle element, or the mean of the two middle ones; n > 0
MedianOfSorted(data, n) ==
    IF n % 2 = 1 THEN data[(n \div 2) + 1]
    ELSE NumDiv(NumAdd(data[n \div 2], data[(n \div 2) + 1]), FromInt(2))

Median(list) == MedianOfSorted(Sorted(list), Len(list))

\* lines 521-524: statistics.median(list) if list else None
MedianOrNone(list) == IF list # << >> THEN SomeNum(Median(list)) ELSE NoneNum

\* lines 508-513
PatternStats(name, rt, tp, ct, mm) ==
    [q_file |-> name, runtimes |-> rt, throughputs |-> tp, cpu_times |-> ct,
     memories |-> mm]

\* lines 520-525
PatternSummary(stats) ==
    [q_file |-> stats.q_file,
     runtime_median |-> MedianOrNone(stats.runtimes),
     throughput_median |-> MedianOrNone(stats.throughputs),
     cpu_median |-> MedianOrNone(stats.cpu_times),
     memory_median |-> MedianOrNone(stats.memories)]

\* ------------------------------------------------------------------------
\* run_benchmark: a whole run
\* ------------------------------------------------------------------------
\* what os.listdir(QUERY_DIR) may hold, filtered and sorted
QueryDirs == {<< >>, <<"q1.sql">>, <<"q1.sql", "q2.sql">>}

\* what get_input_row_count returns in the runs modelled here: the count
\* query fails (lines 108-110), so that a trial without server statistics
\* processes no rows; the trials of Spec cover the counted baselines
RunBaselines == {PyNone}

OkCursor ==
    [execute_raises |-> FALSE, qid |-> QueryId1, fetch_raises |-> FALSE,
     nrows |-> 5, msg |-> ""]
LostCursor ==
    [execute_raises |-> FALSE, qid |-> QueryId1, fetch_raises |-> TRUE,
     nrows |-> 0, msg |-> "lost"]
FailCursor ==
    [execute_raises |-> TRUE, qid |-> Absent, fetch_raises |-> FALSE,
     nrows |-> 0, msg |-> "boom"]

\* a 200 body whose physicalInputRows is a JSON string
StrRowsBody ==
    Body(Finished, WithFields(NoStats, [physicalInputRows |-> Str7]), "absent", NoStage)

Trial(c, r, d) == [cursor |-> c, response |-> r, client_duration |-> d]

\* what a measurement iteration may meet: a query measured by the server, a
\* query whose statistics request fails, a query that fails, and a query
\* whose fetch fails and whose statistics carry a string row count
RunTrials ==
    {Trial(OkCursor, Ok(FullBody), FromInt(3)),
     Trial(OkCursor, NetErr, FromInt(3)),
     Trial(FailCursor, NetErr, FromInt(3)),
     Trial(LostCursor, Ok(StrRowsBody), FromInt(3))}

\* measure_query_execution on every trial and baseline of a run
Outcome(t, b) ==
    [trial |-> t, input_rows |-> b,
     m |-> measure_query_execution(t.cursor, t.response, b, t.client_duration)]

RunOutcomes == {Outcome(t, b) : t \in RunTrials, b \in RunBaselines}

\* a statement of pattern q executed on the cursor: warmup or measurement
\* number k, and whether execute and fetchall went through
Executed(op, q, k, ok) == [op |-> op, q_file |-> q, i |-> k, ok |-> ok]

CursorOk(c) == ~c.execute_raises /\ ~c.fetch_raises

RunInit ==
    /\ pc = "connect"
    /\ NothingMeasured
    /\ NothingParsed
    /\ NothingRun
    /\ NothingStepped

\* mutant: the metadata file is written before a failed connect ends the run
ConnectFailsIgnored ==
    /\ pc = "connect"
    /\ files' = files \cup {"metadata"}
    /\ pc' = "connect_failed"
    /\ UNCHANGED <<trial, parsed, query_files, all_stats, stats_summary, disk, log, steps>>

\* lines 333-334: connect (or cursor) raises, and nothing catches it
ConnectFails ==
    /\ pc = "connect"
    /\ pc' = "connect_failed"
    /\ UNCHANGED <<trial, parsed, run, steps>>

ConnectSucceeds ==
    /\ pc = "connect"
    /\ pc' = "metadata"
    /\ UNCHANGED <<trial, parsed, run, steps>>

\* lines 337-346: get_system_metadata runs its statements on a cursor of its
\* own and catches every failure
CollectMetadata ==
    /\ pc = "metadata"
    /\ pc' = "test"
    /\ UNCHANGED <<trial, parsed, run, steps>>

\* lines 353-374: the test query and, when it yields an identifier, one
\* statistics call; every failure is caught
TestMetrics ==
    /\ pc = "test"
    /\ \E c \in Cursors :
          requests' = IF CursorOk(c)
                      THEN RequestsIssued(IF c.qid.t = "absent" THEN PyNone ELSE c.qid)
                      ELSE 0
    /\ pc' = "save_metadata"
    /\ UNCHANGED <<inputs, metrics, runtimes, throughputs, cpu_times, memories, csv,
                   parsed, run, steps>>

\* lines 380-381
SaveMetadata ==
    /\ pc = "save_metadata"
    /\ files' = files \cup {"metadata"}
    /\ pc' = "count"
    /\ UNCHANGED <<trial, parsed, query_files, all_stats, stats_summary, disk, log, steps>>

\* line 384
GetInputRowCount ==
    /\ pc = "count"
    /\ input_rows' \in RunBaselines
    /\ pc' = "open"
    /\ UNCHANGED <<cursor, response, client_duration, q_file, i, metrics, runtimes,
                   throughputs, cpu_times, memories, csv, requests, parsed, run, steps>>

\* lines 389-409: the file is created and the header handed to the writer;
\* what is written stays in the file object's buffer (8192 characters, far
\* more than the rows of the runs modelled here) until the file is closed
OpenCsv ==
    /\ pc = "open"
    /\ files' = files \cup {"csv"}
    /\ query_files' \in QueryDirs
    /\ all_stats' = << >>
    /\ pc' = "pattern"
    /\ UNCHANGED <<trial, parsed, stats_summary, disk, log, steps>>

\* lines 411-419
NextPattern ==
    /\ pc = "pattern"
    /\ Len(all_stats) < Len(query_files)
    /\ q_file' = query_files[Len(all_stats) + 1]
    /\ i' = 0
    /\ pc' = "warmup"
    /\ UNCHANGED <<cursor, response, input_rows, client_duration, metrics, runtimes,
                   throughputs, cpu_times, memories, csv, requests, parsed,
                   query_files, all_stats, stats_summary, files, disk, log, steps>>

\* mutant: the warmup loop is skipped
NoWarmupsLeft(k) == FALSE

\* line 424: for i in range(WARMUP_RUNS)
WarmupsLeft(k) == k < WARMUP_RUNS

\* lines 425-430: a failure is printed and ignored
Warmup ==
    /\ pc = "warmup"
    /\ WarmupsLeft(i)
    /\ \E ok \in BOOLEAN : log' = Append(log, Executed("warmup", q_file, i + 1, ok))
    /\ i' = i + 1
    /\ UNCHANGED <<cursor, response, input_rows, client_duration, q_file, metrics,
                   runtimes, throughputs, cpu_times, memories, csv, requests, pc,
                   parsed, query_files, all_stats, stats_summary, files, disk, steps>>

\* mutant: the lists of the previous pattern are kept
StartMeasurementKeeps ==
    /\ pc = "warmup"
    /\ ~WarmupsLeft(i)
    /\ i' = 0
    /\ pc' = "iterate"
    /\ UNCHANGED <<cursor, response, input_rows, client_duration, q_file, metrics,
                   runtimes, throughputs, cpu_times, memories, csv, requests, parsed,
                   run, steps>>

\* lines 435-441
StartMeasurement ==
    /\ pc = "warmup"
    /\ ~WarmupsLeft(i)
    /\ runtimes' = << >> /\ throughputs' = << >> /\ cpu_times' = << >> /\ memories' = << >>
    /\ i' = 0
    /\ pc' = "iterate"
    /\ UNCHANGED <<cursor, response, input_rows, client_duration, q_file, metrics,
                   csv, requests, parsed, run, steps>>

\* mutant: range(ITERATIONS) is left after its first index
OneIterationLeft(k) == k < 1

\* line 441: for i in range(ITERATIONS)
IterationsLeft(k) == k < ITERATIONS

\* the iteration that meets trial t, its call having returned m
IterateWith(t, m) ==
    /\ ~m.raised
    /\ cursor' = t.cursor /\ response' = t.response
    /\ client_duration' = t.client_duration
    /\ metrics' = m
    /\ requests' = RequestsIssued(ExecuteAndFetch(t.cursor).query_id)
    /\ Record(m)
    /\ log' = Append(log, Executed("measure", q_file, i + 1, CursorOk(t.cursor)))

\* lines 442-479, one pass of the loop body: the statement is executed, the
\* call returns, the samples and the row are recorded
Iterate ==
    /\ pc = "iterate"
    /\ IterationsLeft(i)
    /\ \E o \in RunOutcomes : o.input_rows = input_rows /\ IterateWith(o.trial, o.m)
    /\ i' = i + 1
    /\ UNCHANGED <<input_rows, q_file, pc, parsed, query_files, all_stats,
                   stats_summary, files, disk, steps>>

\* line 442: the call raises; nothing in run_benchmark catches it, the with
\* block of line 389 closes the file on the way out and the run ends before
\* the statistics are saved
IterateRaises ==
    /\ pc = "iterate"
    /\ IterationsLeft(i)
    /\ \E o \in RunOutcomes :
          /\ o.input_rows = input_rows /\ o.m.raised
          /\ cursor' = o.trial.cursor /\ response' = o.trial.response
          /\ client_duration' = o.trial.client_duration
          /\ requests' = RequestsIssued(ExecuteAndFetch(o.trial.cursor).query_id)
          /\ log' = Append(log, Executed("measure", q_file, i + 1,
                                         CursorOk(o.trial.cursor)))
    /\ disk' = csv
    /\ pc' = "crashed"
    /\ UNCHANGED <<input_rows, q_file, i, metrics, runtimes, throughputs, cpu_times,
                   memories, csv, parsed, query_files, all_stats, stats_summary, files, steps>>

\* lines 508-513, after the last iteration; log holds the statements of the
\* pattern at hand, and the pattern ends here
FinishPattern ==
    /\ pc = "iterate"
    /\ ~IterationsLeft(i)
    /\ all_stats' = Append(all_stats,
                           PatternStats(q_file, runtimes, throughputs, cpu_times, memories))
    /\ log' = << >>
    /\ pc' = "pattern"
    /\ UNCHANGED <<trial, parsed, query_files, stats_summary, files, disk, steps>>

\* the end of the with block of line 389, where the file is closed, and
\* lines 518-528
SaveStatistics ==
    /\ pc = "pattern"
    /\ ~(Len(all_stats) < Len(query_files))
    /\ disk' = csv
    /\ stats_summary' = [k \in 1..Len(all_stats) |-> PatternSummary(all_stats[k])]
    /\ files' = files \cup {"stats"}
    /\ pc' = "done"
    /\ UNCHANGED <<trial, parsed, query_files, all_stats, log, steps>>

RunNext ==
    \/ ConnectFails \/ ConnectSucceeds \/ CollectMetadata \/ TestMetrics
    \/ SaveMetadata \/ GetInputRowCount \/ OpenCsv \/ NextPattern \/ Warmup
    \/ StartMeasurement \/ Iterate \/ IterateRaises
    \/ FinishPattern \/ SaveStatistics

RunSpec == RunInit /\ [][RunNext]_vars

\* ------------------------------------------------------------------------
\* properties of a run
\* ------------------------------------------------------------------------
\* the run is over: the statistics are saved, or an exception left run_benchmark
RunOver == pc \in {"done", "crashed"}

\* the rows of pattern q and iteration k in a sequence of rows
RowsOf(rows, q, k) ==
    {r \in 1..Len(rows) : rows[r].query_pattern = q /\ rows[r].iteration = k}

\* C15: a run that got past the connection ends with a CSV file holding
\* exactly one data row for each pattern file and each iteration 1..ITERATIONS,
\* whatever failed on the way.
C15_OneRowPerIteration ==
    RunOver =>
        /\ Len(disk) = Len(query_files) * ITERATIONS
        /\ \A p \in 1..Len(query_files) : \A k \in 1..ITERATIONS :
              Cardinality(RowsOf(disk, query_files[p], k)) = 1

\* the pattern at hand has had its last statement: its iterations are used
\* up, or the run ended inside it
PatternOver == (pc = "iterate" /\ ~IterationsLeft(i)) \/ pc = "crashed"

\* C16: the statement of a pattern is executed WARMUP_RUNS + ITERATIONS times,
\* no warmup or iteration twice, and every measurement iteration whose
\* statement failed has its row, with an error status, in the CSV; the run is
\* never aborted.
C16_NoRetriesNoAbort ==
    /\ pc # "crashed"
    /\ PatternOver => Len(log) = WARMUP_RUNS + ITERATIONS
    /\ \A a \in 1..Len(log) : \A b \in 1..Len(log) :
          (a # b) => (log[a].op # log[b].op \/ log[a].i # log[b].i)
    /\ \A a \in 1..Len(log) :
          (log[a].op = "measure" /\ ~log[a].ok) =>
              \E r \in RowsOf(csv, log[a].q_file, log[a].i) : csv[r].status # "SUCCESS"

\* the measurement phase of the pattern at hand has begun
Measuring == pc \in {"iterate", "crashed"}

\* log opens with the WARMUP_RUNS warmups of pattern q, and holds no other
WarmupsFirst(q) ==
    /\ Len(log) >= WARMUP_RUNS
    /\ \A a \in 1..Len(log) :
          /\ log[a].q_file = q
          /\ (log[a].op = "warmup") <=> (a <= WARMUP_RUNS)
          /\ (log[a].op = "warmup") => log[a].i = a

\* a step of the warmup loop
WarmupStep == pc = "warmup" /\ pc' = "warmup"

\* C17: when a pattern's measurement iterations run, exactly WARMUP_RUNS
\* warmup executions of that pattern came first; a warmup, failed or not,
\* leaves the CSV rows and the four accumulators as they were; and after the
\* warmups, failed or not, the measurement loop starts at its first
\* iteration and can go on until ITERATIONS iterations are over.
C17_Warmups ==
    /\ [](Measuring => WarmupsFirst(q_file))
    /\ [][WarmupStep => UNCHANGED <<csv, disk, runtimes, throughputs, cpu_times,
                                    memories, all_stats>>]_vars
    /\ [][(pc = "warmup" /\ pc' # "warmup") => (pc' = "iterate" /\ i' = 0)]_vars
    /\ []((pc = "warmup" /\ ~WarmupsLeft(i)) => ENABLED StartMeasurement)
    /\ []((pc = "iterate" /\ IterationsLeft(i)) => ENABLED Iterate)

\* a pattern whose warmup failed and whose ITERATIONS iterations all ran and
\* were written
C17_Witness ==
    /\ pc = "iterate" /\ ~IterationsLeft(i)
    /\ WarmupsFirst(q_file)
    /\ \E a \in 1..WARMUP_RUNS : ~log[a].ok
    /\ \A k \in 1..ITERATIONS : Cardinality(RowsOf(csv, q_file, k)) = 1

\* C18: whenever the statement of a next trial can be executed, and when the
\* run has crashed in a trial, the rows of all completed trials are in the
\* CSV file.
C18_RowsInFile ==
    /\ pc = "iterate" => disk = csv
    /\ pc = "crashed" => disk = csv

\* x < y, by cross-multiplication over the common powers of 2 and 5
BelowAt(x, y, a, b) == Scaled(x, a, b) * y.d < Scaled(y, a, b) * x.d

Below(x, y) == BelowAt(x, y, Min(x.p2, y.p2), Min(x.p5, y.p5))

\* e is a k-th smallest element of list: fewer than k elements lie below it
\* and at least k do not lie above it
IsKth(list, e, k) ==
    /\ \E a \in 1..Len(list) : list[a] = e
    /\ Cardinality({a \in 1..Len(list) : Below(list[a], e)}) <= k - 1
    /\ Cardinality({a \in 1..Len(list) : ~Below(e, list[a])}) >= k

\* v is the median of the non-empty list: the middle element by rank, or the
\* mean of the two middle elements
IsMedianOf(list, v) ==
    IF Len(list) % 2 = 1
    THEN IsKth(list, v, (Len(list) \div 2) + 1)
    ELSE \E a \in 1..Len(list) :
            /\ IsKth(list, list[a], Len(list) \div 2)
            /\ \E b \in 1..Len(list) :
                  /\ NumMul(FromInt(2), v) = NumAdd(list[a], list[b])
                  /\ IsKth(list, list[b], (Len(list) \div 2) + 1)

\* o is the median of list, or null for a list without samples
MedianOrNull(list, o) ==
    IF list = << >> THEN o = NoneNum ELSE o.some /\ IsMedianOf(list, o.v)

\* the rows of pattern q in the CSV
PatternRows(q) == {r \in 1..Len(csv) : csv[r].query_pattern = q}

\* the summary entry su of a pattern whose sample lists are st
SummaryOf(st, su) ==
    /\ su.q_file = st.q_file
    /\ MedianOrNull(st.runtimes, su.runtime_median)
    /\ MedianOrNull(st.throughputs, su.throughput_median)
    /\ MedianOrNull(st.cpu_times, su.cpu_median)
    /\ MedianOrNull(st.memories, su.memory_median)
    /\ (\A r \in PatternRows(st.q_file) : csv[r].status # "SUCCESS") =>
           /\ su.runtime_median = NoneNum /\ su.throughput_median = NoneNum
           /\ su.cpu_median = NoneNum /\ su.memory_median = NoneNum
    /\ (\A r \in PatternRows(st.q_file) :
           csv[r].cpu_seconds = EmptyCell /\ csv[r].peak_memory_mb = EmptyCell) =>
           su.cpu_median = NoneNum /\ su.memory_median = NoneNum

\* C19: in the saved statistics every pattern has its entry, whose four
\* medians are each the median of the pattern's sample list, or null when the
\* list has no sample; all four are null for a pattern whose iterations all
\* failed, and the CPU and memory medians are null for a pattern without
\* server CPU and memory values.
C19_Medians ==
    pc = "done" =>
        /\ Len(stats_summary) = Len(query_files)
        /\ \A p \in 1..Len(query_files) :
              /\ all_stats[p].q_file = query_files[p]
              /\ SummaryOf(all_stats[p], stats_summary[p])

\* a saved summary with a pattern of four runtimes whose median is none of
\* them, and a pattern with successful trials and no server CPU value
C19_Witness ==
    /\ pc = "done"
    /\ Len(stats_summary) = 2
    /\ Len(all_stats[1].runtimes) = 4
    /\ stats_summary[1].runtime_median.some
    /\ \A a \in 1..4 : all_stats[1].runtimes[a] # stats_summary[1].runtime_median.v
    /\ Len(all_stats[2].runtimes) = 3 /\ stats_summary[2].runtime_median.some
    /\ all_stats[2].cpu_times = << >> /\ stats_summary[2].cpu_median = NoneNum

\* nothing was executed for a pattern and no artifact exists
NothingDone ==
    /\ files = {} /\ disk = << >> /\ csv = << >>
    /\ log = << >> /\ all_stats = << >> /\ stats_summary = << >>

\* C20: when establishing the connection fails the run is over: no warmup or
\* measurement statement has been or will be executed, and no CSV, metadata
\* or statistics file has been or will be written.
C20_ConnectionFailureFatal ==
    /\ [](pc = "connect_failed" => NothingDone)
    /\ [][pc = "connect_failed" => UNCHANGED vars]_vars

\* the run has ended at the failed connection
C20_Witness == pc = "connect_failed" /\ NothingDone /\ ~ENABLED RunNext

\* ------------------------------------------------------------------------
\* The statements of a pattern, step by step
\* ------------------------------------------------------------------------
\* the last value of the clock, and the statements stepped through
MaxClock == 2
MaxStatements == 3

StepCursors == {OkCursor, LostCursor, FailCursor}

\* a call to the server made by statement n
Call(kind, n) == [kind |-> kind, n |-> n]

\* a step of statement n taken at time at
Event(n, step, at) == [n |-> n, step |-> step, at |-> at]

\* lines 424 and 441: the statements of a pattern are its warmups, then its
\* measurement iterations
IsWarmup(n) == n <= WARMUP_RUNS

\* mutant: end_time is read after the statistics have come back
StepAfterStatsTimed(step) ==
    CASE step = "start_time" -> "execute"
      [] step = "execute"    -> "fetchall"
      [] step = "fetchall"   -> "request"
      [] step = "request"    -> "end_time"
      [] step = "end_time"   -> "return"

\* lines 252-275: the order of the statements of measure_query_execution;
\* what follows fetchall also follows the except clause
StepAfter(step) ==
    CASE step = "start_time" -> "execute"
      [] step = "execute"    -> "fetchall"
      [] step = "fetchall"   -> "end_time"
      [] step = "end_time"   -> "request"
      [] step = "request"    -> "return"

\* where a statement goes on after its try block: lines 425-430 for a warmup,
\* lines 255-271 for a measurement
AfterTry(n) == IF IsWarmup(n) THEN "loop" ELSE StepAfter("fetchall")

StepInit ==
    /\ pc = "loop"
    /\ NothingMeasured
    /\ NothingParsed
    /\ NothingRun
    /\ NothingStepped

\* time passes, at any point of the program
Tick ==
    /\ now < MaxClock
    /\ now' = now + 1
    /\ UNCHANGED <<trial, pc, parsed, run, start_time, end_time, in_flight, events>>

\* lines 424 and 441-442: the next statement of the pattern
BeginStatement ==
    /\ pc = "loop"
    /\ i < MaxStatements
    /\ cursor' \in StepCursors
    /\ pc' = IF IsWarmup(i + 1) THEN "execute" ELSE "start_time"
    /\ UNCHANGED <<response, input_rows, client_duration, q_file, i, metrics, runtimes,
                   throughputs, cpu_times, memories, csv, requests, parsed, run, steps>>

\* line 252
TakeStartTime ==
    /\ pc = "start_time"
    /\ start_time' = now
    /\ events' = Append(events, Event(i + 1, "start_time", now))
    /\ pc' = StepAfter("start_time")
    /\ UNCHANGED <<trial, parsed, run, now, end_time, in_flight>>

\* lines 256 and 426: cursor.execute is called
CallExecute ==
    /\ pc = "execute"
    /\ in_flight' = in_flight \cup {Call("query", i + 1)}
    /\ events' = Append(events, Event(i + 1, "execute", now))
    /\ pc' = "executing"
    /\ UNCHANGED <<trial, parsed, run, now, start_time, end_time>>

\* cursor.execute returns, the query going on until its rows are fetched
ExecuteReturns ==
    /\ pc = "executing"
    /\ ~cursor.execute_raises
    /\ pc' = StepAfter("execute")
    /\ UNCHANGED <<trial, parsed, run, steps>>

\* cursor.execute raises: lines 266-269 and 429-430
ExecuteRaises ==
    /\ pc = "executing"
    /\ cursor.execute_raises
    /\ in_flight' = in_flight \ {Call("query", i + 1)}
    /\ pc' = AfterTry(i + 1)
    /\ i' = IF IsWarmup(i + 1) THEN i + 1 ELSE i
    /\ UNCHANGED <<cursor, response, input_rows, client_duration, q_file, metrics,
                   runtimes, throughputs, cpu_times, memories, csv, requests, parsed,
                   run, now, start_time, end_time, events>>

\* lines 262 and 427: cursor.fetchall is called
CallFetchall ==
    /\ pc = "fetchall"
    /\ events' = Append(events, Event(i + 1, "fetchall", now))
    /\ pc' = "fetching"
    /\ UNCHANGED <<trial, parsed, run, now, start_time, end_time, in_flight>>

\* cursor.fetchall returns the rows or raises; the try block is left
FetchallEnds ==
    /\ pc = "fetching"
    /\ in_flight' = in_flight \ {Call("query", i + 1)}
    /\ pc' = AfterTry(i + 1)
    /\ i' = IF IsWarmup(i + 1) THEN i + 1 ELSE i
    /\ UNCHANGED <<cursor, response, input_rows, client_duration, q_file, metrics,
                   runtimes, throughputs, cpu_times, memories, csv, requests, parsed,
                   run, now, start_time, end_time, events>>

\* lines 271-272
TakeEndTime ==
    /\ pc = "end_time"
    /\ end_time' = now
    /\ client_duration' = FromInt(now - start_time)
    /\ events' = Append(events, Event(i + 1, "end_time", now))
    /\ pc' = StepAfter("end_time")
    /\ UNCHANGED <<cursor, response, input_rows, q_file, i, metrics, runtimes,
                   throughputs, cpu_times, memories, csv, requests, parsed, run, now,
                   start_time, in_flight>>

\* lines 275 and 165-175: the statistics are requested
SendRequest ==
    /\ pc = "request"
    /\ RequestsIssued(ExecuteAndFetch(cursor).query_id) = 1
    /\ requests' = 1
    /\ in_flight' = in_flight \cup {Call("request", i + 1)}
    /\ events' = Append(events, Event(i + 1, "request", now))
    /\ pc' = "requesting"
    /\ UNCHANGED <<cursor, response, input_rows, client_duration, q_file, i, metrics,
                   runtimes, throughputs, cpu_times, memories, csv, parsed, run, now,
                   start_time, end_time>>

\* lines 275 and 165-166: no identifier, no request
SkipRequest ==
    /\ pc = "request"
    /\ RequestsIssued(ExecuteAndFetch(cursor).query_id) = 0
    /\ requests' = 0
    /\ pc' = StepAfter("request")
    /\ UNCHANGED <<cursor, response, input_rows, client_duration, q_file, i, metrics,
                   runtimes, throughputs, cpu_times, memories, csv, parsed, run, steps>>

\* line 175: requests.get returns a response or raises
RequestEnds ==
    /\ pc = "requesting"
    /\ response' \in {NetErr, Ok(FullBody)}
    /\ in_flight' = in_flight \ {Call("request", i + 1)}
    /\ events' = Append(events, Event(i + 1, "response", now))
    /\ pc' = StepAfter("request")
    /\ UNCHANGED <<cursor, input_rows, client_duration, q_file, i, metrics, runtimes,
                   throughputs, cpu_times, memories, csv, requests, parsed, run, now,
                   start_time, end_time>>

\* lines 277-326 and 442: the record is built and returned to the loop
ReturnMetrics ==
    /\ pc = "return"
    /\ metrics' = measure_query_execution(cursor, response, input_rows, client_duration)
    /\ i' = i + 1
    /\ pc' = "loop"
    /\ UNCHANGED <<cursor, response, input_rows, client_duration, q_file, runtimes,
                   throughputs, cpu_times, memories, csv, requests, parsed, run, steps>>

StepNext ==
    \/ Tick \/ BeginStatement \/ TakeStartTime \/ CallExecute \/ ExecuteReturns
    \/ ExecuteRaises \/ CallFetchall \/ FetchallEnds \/ TakeEndTime \/ SendRequest
    \/ SkipRequest \/ RequestEnds \/ ReturnMetrics

StepSpec == StepInit /\ [][StepNext]_vars

\* the place of a step in a trial
Rank(step) ==
    CASE step = "start_time" -> 1
      [] step = "execute"    -> 2
      [] step = "fetchall"   -> 3
      [] step = "end_time"   -> 4
      [] step = "request"    -> 5
      [] step = "response"   -> 6

\* the events of statement n that are the given step
EventsOf(n, step) == {a \in 1..Len(events) : events[a].n = n /\ events[a].step = step}

\* statement by statement, and within a statement step by step: each event
\* and the one after it
InOrder ==
    \A a \in 1..(Len(events) - 1) :
        /\ events[a].n <= events[a + 1].n
        /\ events[a].n = events[a + 1].n =>
              Rank(events[a].step) < Rank(events[a + 1].step)
        /\ events[a].at <= events[a + 1].at

\* a statistics request comes after the two clock readings of its trial, and
\* the duration is their difference
DurationBeforeRequest ==
    /\ \A a \in 1..Len(events) :
          events[a].step = "request" =>
              /\ \E b \in EventsOf(events[a].n, "start_time") : b < a
              /\ \E b \in EventsOf(events[a].n, "execute") : b < a
              /\ \E b \in EventsOf(events[a].n, "end_time") :
                    b < a /\ events[b].at <= events[a].at
    /\ pc \in {"request", "requesting", "return"} =>
          /\ \E a \in EventsOf(i + 1, "start_time") : events[a].at = start_time
          /\ \E b \in EventsOf(i + 1, "end_time") : events[b].at = end_time
          /\ client_duration = FromInt(end_time - start_time)

\* what follows a statistics request is its response, before any step of a
\* later statement
RequestBackFirst ==
    \A a \in 1..(Len(events) - 1) :
        events[a].step = "request" =>
            events[a + 1].step = "response" /\ events[a + 1].n = events[a].n

\* one call at most is out, and none when a statement begins, a clock is
\* read, the statistics are requested or the record is returned
OneAtATime ==
    /\ Cardinality(in_flight) <= 1
    /\ pc \in {"loop", "start_time", "execute", "end_time", "request", "return"} =>
          in_flight = {}

\* C21: the steps of a trial happen in the order start_time, execute,
\* fetchall, end_time, statistics request, so that the client duration is
\* measured before the request is made; a statement, warmup or measurement,
\* begins only after the previous statement and its statistics request have
\* come back; two calls are never out at once.
C21_Sequential == InOrder /\ DurationBeforeRequest /\ RequestBackFirst /\ OneAtATime

\* a trial whose statistics request took time that its duration leaves out,
\* followed by the execute of the next trial
C21_Witness ==
    /\ pc = "executing"
    /\ \E a \in 1..Len(events) : \E c \in 1..Len(events) :
          /\ events[a].step = "end_time" /\ events[a].n = WARMUP_RUNS + 1
          /\ events[c].step = "response" /\ events[c].n = WARMUP_RUNS + 1
          /\ events[a].at < events[c].at
    /\ events[Len(events)] = Event(WARMUP_RUNS + 2, "execute", now)
    /\ in_flight = {Call("query", WARMUP_RUNS + 2)}

\* the rows of pattern q with status SUCCESS, in the order written
SuccessRows(q) ==
    SelectSeq(csv, LAMBDA r : r.query_pattern = q /\ r.status = "SUCCESS")

RuntimeColumn(rows) == [k \in 1..Len(rows) |-> rows[k].runtime_sec]

ThroughputColumn(rows) == [k \in 1..Len(rows) |-> rows[k].throughput_input_rows_per_sec]

\* the successful rows with a value in the CPU cell, and in the memory cell
CpuRows(rows) == SelectSeq(rows, LAMBDA r : r.cpu_seconds # EmptyCell)

MemoryRows(rows) == SelectSeq(rows, LAMBDA r : r.peak_memory_mb # EmptyCell)

\* the four lists are what the successful trials of pattern q gave
SamplesOf(q, rt, tp, ct, mm) ==
    /\ rt = RuntimeColumn(SuccessRows(q))
    /\ tp = ThroughputColumn(SuccessRows(q))
    /\ ct = [k \in 1..Len(CpuRows(SuccessRows(q))) |-> CpuRows(SuccessRows(q))[k].cpu_seconds.v]
    /\ mm = [k \in 1..Len(MemoryRows(SuccessRows(q))) |->
                MemoryRows(SuccessRows(q))[k].peak_memory_mb.v]

\* the rows of the pattern at hand are those of iterations 1, 2, ... in order
RowsInIterationOrder ==
    \A r \in 1..Len(csv) :
        csv[r].query_pattern = q_file =>
            csv[r].iteration = Cardinality({a \in 1..r : csv[a].query_pattern = q_file})

\* a measurement iteration that writes a row with an error status
FailedIterationStep ==
    /\ pc = "iterate" /\ Len(csv') = Len(csv) + 1
    /\ csv'[Len(csv')].status # "SUCCESS"

\* C22: after any number of measurement iterations of a pattern, runtimes
\* holds the runtime_sec values of the pattern's trials with status SUCCESS,
\* in iteration order, and so do the other three lists for their columns; the
\* lists recorded for a finished pattern are those; and an iteration whose
\* trial has an error status leaves the four lists as they were.
C22_SuccessfulOnly ==
    /\ [](pc \in {"iterate", "crashed", "pattern", "done"} =>
             /\ RowsInIterationOrder
             /\ SamplesOf(q_file, runtimes, throughputs, cpu_times, memories))
    /\ [](\A p \in 1..Len(all_stats) :
             SamplesOf(all_stats[p].q_file, all_stats[p].runtimes,
                       all_stats[p].throughputs, all_stats[p].cpu_times,
                       all_stats[p].memories))
    /\ [][FailedIterationStep =>
             UNCHANGED <<runtimes, throughputs, cpu_times, memories>>]_vars

\* after four iterations the pattern has failed trials and successful ones,
\* and fewer samples than rows
C22_Witness ==
    /\ pc = "iterate" /\ i = 4
    /\ Len(runtimes) = 2
    /\ Len(cpu_times) = 1
    /\ csv[1].status # "SUCCESS" /\ csv[2].status = "SUCCESS"
    /\ csv[4].status # "SUCCESS"

\* the four lists hold nothing
ListsEmpty ==
    runtimes = << >> /\ throughputs = << >> /\ cpu_times = << >> /\ memories = << >>

\* what is recorded for the patterns finished so far stays as it is
RecordedKept ==
    \A p \in 1..Len(all_stats) : Len(all_stats') >= p /\ all_stats'[p] = all_stats[p]

\* C23: the four lists are empty when the measurement loop of a pattern
\* begins; what is recorded for a pattern comes from the rows of that pattern
\* alone, one entry per pattern file in order; and what is recorded for an
\* earlier pattern is changed by no later step.
C23_NoCrossing ==
    /\ []((pc = "iterate" /\ i = 0) => ListsEmpty)
    /\ [](/\ Len(all_stats) <= Len(query_files)
          /\ \A p \in 1..Len(all_stats) :
                /\ all_stats[p].q_file = query_files[p]
                /\ Len(all_stats[p].runtimes) = Len(SuccessRows(query_files[p]))
                /\ Len(all_stats[p].runtimes) <= ITERATIONS
                /\ SamplesOf(query_files[p], all_stats[p].runtimes,
                             all_stats[p].throughputs, all_stats[p].cpu_times,
                             all_stats[p].memories))
    /\ [][RecordedKept]_vars

\* the second pattern is being measured, after a first pattern of five
\* successful trials
C23_Witness ==
    /\ pc = "iterate" /\ i = 2
    /\ Len(all_stats) = 1 /\ Len(all_stats[1].runtimes) = ITERATIONS
    /\ Len(all_stats[1].cpu_times) = 3
    /\ q_file = query_files[2]
    /\ Len(runtimes) = 1

\* the answered body has a shape the extraction trips over: not an object,
\* queryStats not an object, or an outputStage that is consulted and is null
\* or has null stageStats
BadShape(data) ==
    \/ ~data.isdict
    \/ data.queryStats.kind = "notdict"
    \/ /\ ~Truthy(ExtractTopPeakMemory(QueryStatsOf(data)))
       /\ data.outputStage.kind \in {"null", "badstats"}

\* the memory value of a body of good shape
PeakMemoryValue(data) == ExtractPeakMemory(data).v

\* a unit parser raises on the CPU, elapsed or memory value of the body
BadValue(data) ==
    \/ parse_duration_to_seconds(ExtractCpuTime(QueryStatsOf(data))).raised
    \/ parse_duration_to_seconds(ExtractElapsedTime(QueryStatsOf(data))).raised
    \/ /\ Truthy(PeakMemoryValue(data))
       /\ parse_memory_to_mb(PeakMemoryValue(data)).raised

\* what the extractor returns in the trial at hand
Extracted == get_query_stats_from_api(ExecuteAndFetch(cursor).query_id, response)

\* every key of the record has its value from the body
FullRecord(st, data) ==
    /\ ~st.empty
    /\ st.query_id = cursor.qid
    /\ st.state = (IF data.state.t = "absent"
                   THEN PyStr(<<"U", "N", "K", "N", "O", "W", "N">>) ELSE data.state)
    /\ st.cpu_time_str = ExtractCpuTime(QueryStatsOf(data))
    /\ st.cpu_time_sec = parse_duration_to_seconds(st.cpu_time_str).v
    /\ st.elapsed_time_str = ExtractElapsedTime(QueryStatsOf(data))
    /\ st.elapsed_time_sec = parse_duration_to_seconds(st.elapsed_time_str).v
    /\ st.peak_memory_str =
          (IF Truthy(PeakMemoryValue(data)) THEN PeakMemoryValue(data) ELSE PyNone)
    /\ st.peak_memory_mb =
          (IF Truthy(PeakMemoryValue(data)) THEN parse_memory_to_mb(PeakMemoryValue(data)).v
           ELSE Zero)
    /\ st.physical_input_rows = ExtractInputRows(QueryStatsOf(data))
    /\ st.output_rows = ExtractOutputRows(QueryStatsOf(data))
    /\ st.source = "REST API"

\* C24: the extractor returns all or nothing. On a 200 response whose body
\* has a wrong shape, or a CPU, elapsed or memory value on which a unit parser
\* raises, it returns the empty record, and the trial is tagged 'client-only'
\* with the baseline rows, the client duration and no CPU or memory value,
\* whatever else the body held; on every other 200 response the record has
\* every key, with source 'REST API'.
C24_NoPartialRecord ==
    /\ pc = "start" =>
          /\ Extracted.empty => Extracted = EmptyStats
          /\ Answered =>
                IF BadShape(response.data) \/ BadValue(response.data)
                THEN Extracted = EmptyStats
                ELSE FullRecord(Extracted, response.data)
    /\ pc = "raised" => ~(Answered /\ Extracted.empty)
    /\ (pc = "measured" /\ Answered) =>
          /\ Stats = Extracted
          /\ IF Stats.empty
             THEN /\ Stats = EmptyStats
                  /\ metrics.stats_source = "client-only"
                  /\ metrics.input_rows_processed = BaselineOrZero
                  /\ metrics.runtime_sec = client_duration
                  /\ metrics.cpu_seconds = NoneNum
                  /\ metrics.peak_memory_mb = NoneNum
             ELSE metrics.stats_source = "REST API"

\* a trial whose response had 1000 input rows, a good elapsed time and a CPU
\* time that cannot be parsed
C24_Witness ==
    /\ Answered /\ Returns
    /\ response.data.isdict /\ response.data.queryStats.kind = "dict"
    /\ response.data.queryStats.f["totalCpuTime"] = StrBadS
    /\ response.data.queryStats.f["elapsedTime"] = Str2s
    /\ response.data.queryStats.f["physicalInputRows"] = PyInt(1000)
    /\ input_rows = PyNone
    /\ metrics.stats_source = "client-only"
    /\ metrics.input_rows_processed = Zero
    /\ metrics.runtime_sec = client_duration

\* every element of list is > 0
AllPositive(list) == \A k \in 1..Len(list) : IsPos(list[k])

\* C25: at every point of a pattern's measurement loop throughputs and
\* runtimes have the same length, at most the number of iterations run so
\* far, itself at most ITERATIONS; cpu_times and memories are no longer than
\* runtimes, and each of their elements is > 0.
C25_ListLengths ==
    pc = "iterate" =>
        /\ Len(throughputs) = Len(runtimes)
        /\ Len(runtimes) <= i
        /\ i <= ITERATIONS
        /\ Len(cpu_times) <= Len(runtimes)
        /\ Len(memories) <= Len(runtimes)
        /\ AllPositive(cpu_times)
        /\ AllPositive(memories)

\* after the last iteration: a failed trial, successful trials without CPU
\* and memory values, and a throughput of 0
C25_Witness ==
    /\ pc = "iterate" /\ i = ITERATIONS
    /\ Len(runtimes) = 4
    /\ Len(cpu_times) = 2 /\ Len(memories) = 2
    /\ \E k \in 1..Len(throughputs) : IsZero(throughputs[k])
    /\ \E k \in 1..Len(throughputs) : IsPos(throughputs[k])

====
